---- MODULE Spec2Model ----
(***************************************************************************)
(* Heartbeat Devil (src/main.py): the per-frame simulation core.           *)
(*                                                                         *)
(* Units.  The frame clock hands out whole milliseconds                    *)
(* (dt = clock.tick(FPS) / 1000.0), so every time and timer is an integer  *)
(* number of milliseconds.  Velocities are in 1/100 px/s and positions in  *)
(* 1/100000 px (PosScale), which makes pos += v * dt exact for every       *)
(* velocity the program produces.  Rect coordinates are whole pixels, and  *)
(* int(...) is truncation toward zero (Trunc).  Binary floating-point      *)
(* rounding of the decimal literals is not modelled: arithmetic is exact.  *)
(*                                                                         *)
(* Trap.active holds True, False, "hold" or "down" in the program; here it *)
(* is one of the strings "True", "False", "hold", "down".                  *)
(***************************************************************************)
EXTENDS Integers, Sequences, FiniteSets, TLC

VARIABLES
    pc,          \* position in main's frame loop
    frame,       \* number of frames begun
    dt,          \* this frame's dt, in ms
    keys,        \* this frame's pygame.key.get_pressed()
    mode,        \* this frame's hr.mode()
    player,      \* the Player object
    prev_rect,   \* resolve_physics' local prev_rect (after the X pass)
    level_idx,   \* main's level_idx
    traps,       \* level.traps
    projectiles, \* level.projectiles
    doors,       \* level.doors (the last one is level.real_door)
    level_time,  \* level.level_time
    died,        \* main's local: what resolve_physics returned this frame
    deaths,      \* main's death counter
    finished,    \* main's finished flag
    hr,          \* the HeartRateController object
    udp          \* the UDP receiver of src/bpm_udp.py

vars == <<pc, frame, dt, keys, mode, player, prev_rect, level_idx, traps,
          projectiles, doors, level_time, died, deaths, finished, hr, udp>>

(***************************************************************************)
(* Program constants                                                       *)
(***************************************************************************)
WIDTH == 1280
HEIGHT == 720
GRAVITY == 2400
BASE_MOVE_SPEED == 380
BASE_JUMP_VEL == -850
PLAYER_SIZE == 40
RESPAWN_I_FRAMES == 800
FLASH_DURATION == 20000
INPUT_SWAP_DURATION == 3000
JUMP_SWAP_DURATION == 3000
\* model scales: positions in 1/PosScale px, velocities in 1/VelScale px/s
PosScale == 1000 * 100
VelScale == 10 * 10

\* STRESS_SPEED_MULT = 0.78, STRESS_JUMP_MULT = 0.86, FLASH_SPEED_MULT = 1.6,
\* as numerator over MultDen
STRESS_SPEED_MULT == 78
STRESS_JUMP_MULT == 86
FLASH_SPEED_MULT == 160
MultDen == 10 * 10

(***************************************************************************)
(* Helpers                                                                 *)
(***************************************************************************)
Max(a, b) == IF a >= b THEN a ELSE b
Min(a, b) == IF a <= b THEN a ELSE b

\* clamp(v, a, b) = max(a, min(b, v))
clamp(v, a, b) == Max(a, Min(b, v))

\* Python int(n / d) for d > 0: truncation toward zero
Trunc(n, d) == IF n >= 0 THEN n \div d ELSE -((-n) \div d)

\* int(pos): a float position (in 1/PosScale px) to whole pixels
ToPx(pos) == Trunc(pos, PosScale)

\* pygame.Rect
Rect(x, y, w, h) == [x |-> x, y |-> y, w |-> w, h |-> h]
Left(r) == r.x
Right(r) == r.x + r.w
Top(r) == r.y
Bottom(r) == r.y + r.h
CenterX(r) == r.x + (r.w \div 2)
CenterY(r) == r.y + (r.h \div 2)

\* pygame.Rect.colliderect: strict overlap, rectangles that only touch along
\* an edge do not collide
colliderect(a, b) ==
    /\ a.x < b.x + b.w
    /\ a.y < b.y + b.h
    /\ a.x + a.w > b.x
    /\ a.y + a.h > b.y

\* Python truth value of Trap.active
Truthy(a) == a # "False"

\* the dataclass Trap with its defaults
Trap(rect, kind, active) ==
    [rect |-> rect, kind |-> kind, active |-> active, t |-> 0,
     triggered |-> FALSE, used |-> FALSE, dir |-> 1, speed |-> 0,
     base_x |-> 0, base_y |-> 0, cooldown |-> 0]

\* a trap whose rest position is captured after construction
\* (fb.base_x, fb.base_y = fb.rect.x, fb.rect.y)
TrapBased(rect, kind, active) ==
    [Trap(rect, kind, active) EXCEPT !.base_x = rect.x, !.base_y = rect.y]

\* T(rect, "shifting_wall", active=True, speed=.., dir=..)
TrapWall(rect, speed, dir) ==
    [Trap(rect, "shifting_wall", "True") EXCEPT !.speed = speed, !.dir = dir]

\* the dataclass Door
Door(rect, fake, moves, spiky) ==
    [rect |-> rect, fake |-> fake, moves |-> moves, spiky |-> spiky]

\* P(x, y, w, h=22)
P(x, y, w) == Rect(x, y, w, 22)

\* Level.build: self.world_w = WIDTH * 8
WorldW == WIDTH * 8

\* Level.build: start_pad = P(0, HEIGHT - 78, 520, 78)
StartPad == Rect(0, HEIGHT - 78, 520, 78)

\* Level.build: self.spawn = (80, HEIGHT - 160)
LevelSpawn == [x |-> 80, y |-> HEIGHT - 160]

(***************************************************************************)
(* Level.build: the three levels' geometry                                 *)
(***************************************************************************)
\* the collapsing_floor rectangles, shared between level.traps and
\* level.platforms
Cf1A == Rect(760, HEIGHT - 190, 170, 18)
Cf1B == Rect(3560, HEIGHT - 220, 180, 18)
Cf2A == Rect(1980, HEIGHT - 250, 180, 18)
Cf3A == Rect(920, HEIGHT - 260, 160, 18)
Cf3B == Rect(4660, HEIGHT - 260, 170, 18)

Platforms1 ==
    << StartPad,
       P(560, HEIGHT - 170, 160), Cf1A,
       P(980, HEIGHT - 250, 170), P(1180, HEIGHT - 220, 160),
       P(1500, HEIGHT - 260, 180), P(1780, HEIGHT - 330, 150),
       P(2050, HEIGHT - 270, 170), P(2300, HEIGHT - 210, 220),
       P(2920, HEIGHT - 290, 180), P(3240, HEIGHT - 240, 220), Cf1B,
       P(3810, HEIGHT - 300, 160), P(4150, HEIGHT - 250, 180),
       P(4480, HEIGHT - 260, 190),
       P(WorldW - 520, HEIGHT - 210, 220), P(WorldW - 260, HEIGHT - 210, 200) >>

Traps1 ==
    << Trap(Cf1A, "collapsing_floor", "True"),
       Trap(Rect(760, HEIGHT - 110, 170, 32), "spikes", "True"),
       Trap(Rect(980, HEIGHT - 320, 120, 160), "trigger_hidden_spikes", "True"),
       Trap(Rect(1140, HEIGHT - 110, 190, 32), "hidden_spikes", "False"),
       TrapBased(Rect(1540, 210, 70, 70), "falling_block", "True"),
       Trap(Rect(1960, 0, 18, HEIGHT), "laser", "True"),
       TrapWall(Rect(2570, HEIGHT - 245, 34, 165), 260, -1),
       Trap(Rect(2640, HEIGHT - 110, 240, 32), "spikes", "True"),
       Trap(Rect(3120, HEIGHT - 520, 520, 360), "input_swap_zone", "True"),
       Trap(Cf1B, "collapsing_floor", "True"),
       Trap(Rect(4000, 0, 18, HEIGHT), "laser", "True"),
       Trap(Rect(4440, HEIGHT - 520, 520, 360), "gravity_flip_zone", "True"),
       TrapBased(Rect(4700, 160, 70, 70), "falling_block", "True") >>

Doors1 ==
    << Door(Rect(WorldW - 230, HEIGHT - 170, 64, 98), TRUE, TRUE, FALSE),
       Door(Rect(WorldW - 120, HEIGHT - 170, 64, 98), FALSE, FALSE, FALSE) >>

Platforms2 ==
    << StartPad,
       P(520, HEIGHT - 190, 160), P(760, HEIGHT - 300, 150),
       P(1080, HEIGHT - 420, 150), P(1320, HEIGHT - 520, 150),
       P(1600, HEIGHT - 220, 220), P(1980, HEIGHT - 470, 180), Cf2A,
       P(2300, HEIGHT - 360, 160), P(2620, HEIGHT - 480, 150),
       P(2920, HEIGHT - 300, 220), P(3520, HEIGHT - 420, 160),
       P(3780, HEIGHT - 320, 180),
       P(WorldW - 520, HEIGHT - 240, 220), P(WorldW - 260, HEIGHT - 240, 200) >>

Traps2 ==
    << Trap(Rect(980, 0, 18, HEIGHT), "laser", "True"),
       TrapBased(Rect(1600, HEIGHT - 78, 220, 78), "rising_pit", "False"),
       Trap(Rect(1440, HEIGHT - 270, 140, 150), "trigger_rising_pit", "True"),
       Trap(Cf2A, "collapsing_floor", "True"),
       Trap(Rect(1980, HEIGHT - 110, 200, 32), "spikes", "True"),
       Trap(Rect(2480, 0, 18, HEIGHT), "laser", "True"),
       TrapBased(Rect(2660, 170, 70, 70), "falling_block", "True"),
       Trap(Rect(3000, HEIGHT - 560, 520, 420), "spawn_homing", "True"),
       Trap(Rect(4040, HEIGHT - 520, 520, 360), "input_swap_zone", "True"),
       Trap(Rect(4580, 0, 18, HEIGHT), "laser", "True") >>

Doors2 ==
    << Door(Rect(WorldW - 230, HEIGHT - 170, 64, 98), TRUE, FALSE, TRUE),
       Door(Rect(WorldW - 120, HEIGHT - 170, 64, 98), FALSE, FALSE, FALSE) >>

Platforms3 ==
    << StartPad,
       P(520, HEIGHT - 260, 150), Cf3A,
       P(1160, HEIGHT - 360, 150), P(1460, HEIGHT - 280, 150),
       P(2320, HEIGHT - 420, 160), P(2560, HEIGHT - 300, 160),
       P(2820, HEIGHT - 220, 220),
       P(3840, HEIGHT - 350, 120), P(4040, HEIGHT - 460, 120), Cf3B,
       P(4880, HEIGHT - 360, 150),
       P(WorldW - 520, HEIGHT - 220, 220), P(WorldW - 260, HEIGHT - 220, 200) >>

Traps3 ==
    << Trap(Rect(720, 0, 18, HEIGHT), "laser", "True"),
       Trap(Cf3A, "collapsing_floor", "True"),
       Trap(Rect(920, HEIGHT - 110, 180, 32), "spikes", "True"),
       Trap(Rect(1160, HEIGHT - 430, 140, 160), "trigger_hidden_spikes", "True"),
       Trap(Rect(1340, HEIGHT - 110, 200, 32), "hidden_spikes", "False"),
       TrapBased(Rect(1380, 150, 70, 70), "falling_block", "True"),
       Trap(Rect(1700, HEIGHT - 560, 520, 420), "gravity_flip_zone", "True"),
       Trap(Rect(2240, 0, 18, HEIGHT), "laser", "True"),
       TrapWall(Rect(3080, HEIGHT - 245, 34, 165), 300, -1),
       Trap(Rect(3160, HEIGHT - 110, 260, 32), "spikes", "True"),
       Trap(Rect(3120, HEIGHT - 560, 640, 420), "spawn_homing", "True"),
       Trap(Rect(3680, HEIGHT - 520, 520, 360), "input_swap_zone", "True"),
       Trap(Rect(4300, 0, 18, HEIGHT), "laser", "True"),
       Trap(Rect(4460, 0, 18, HEIGHT), "laser", "True"),
       Trap(Cf3B, "collapsing_floor", "True"),
       Trap(Rect(5060, HEIGHT - 110, 220, 32), "spikes", "True") >>

Doors3 ==
    << Door(Rect(WorldW - 230, HEIGHT - 170, 64, 98), TRUE, TRUE, FALSE),
       Door(Rect(WorldW - 120, HEIGHT - 170, 64, 98), FALSE, FALSE, FALSE) >>

\* level.platforms of Level(idx); the rectangles never move
Platforms(idx) ==
    IF idx = 1 THEN Platforms1 ELSE IF idx = 2 THEN Platforms2 ELSE Platforms3

\* level.traps of a freshly built Level(idx)
BuildTraps(idx) ==
    IF idx = 1 THEN Traps1 ELSE IF idx = 2 THEN Traps2 ELSE Traps3

\* level.doors of a freshly built Level(idx)
BuildDoors(idx) ==
    IF idx = 1 THEN Doors1 ELSE IF idx = 2 THEN Doors2 ELSE Doors3

(***************************************************************************)
(* Level.update                                                            *)
(***************************************************************************)
\* mutant of UpdateLaser: the beam is still on at phase = on_time
UpdateLaserInclusive(t) ==
    LET phase == t.t % (1100 + 780)
    IN  [t EXCEPT !.active = IF phase <= 1100 THEN "True" ELSE "False"]

\* "laser": duty cycle on the trap's own clock (t.t already advanced)
UpdateLaser(t) ==
    LET phase == t.t % (1100 + 780)
    IN  [t EXCEPT !.active = IF phase < 1100 THEN "True" ELSE "False"]

\* mutant of UpdateWall: the wall keeps its direction at the upper bound
UpdateWallOneWay(t, d) ==
    LET x1 == t.rect.x + Trunc(t.dir * t.speed * d, 1000)
        lo == WorldW - 1400
        hi == WorldW - 1180
        x2 == IF x1 < lo THEN lo ELSE x1
        d2 == IF x1 < lo THEN 1 ELSE t.dir
        x3 == IF x2 > hi THEN hi ELSE x2
    IN  [t EXCEPT !.rect.x = x3, !.dir = d2]

\* "shifting_wall": t.rect.x += int(t.dir * t.speed * dt), then the two bounds
UpdateWall(t, d) ==
    LET x1 == t.rect.x + Trunc(t.dir * t.speed * d, 1000)
        lo == WorldW - 1400
        hi == WorldW - 1180
        x2 == IF x1 < lo THEN lo ELSE x1
        d2 == IF x1 < lo THEN 1 ELSE t.dir
        x3 == IF x2 > hi THEN hi ELSE x2
        d3 == IF x2 > hi THEN -1 ELSE d2
    IN  [t EXCEPT !.rect.x = x3, !.dir = d3]

\* mutant of UpdateFloor: a cooldown of 2.0 s
UpdateFloorShort(t, d) ==
    LET a1 == IF t.triggered THEN "False" ELSE t.active
        c1 == IF t.triggered /\ t.cooldown <= 0 THEN 2000 ELSE t.cooldown
        c2 == IF c1 > 0 THEN c1 - d ELSE c1
        back == c1 > 0 /\ c2 <= 0
    IN  [t EXCEPT !.cooldown = c2,
                  !.triggered = IF back THEN FALSE ELSE t.triggered,
                  !.active = IF back THEN "True" ELSE a1]

\* "collapsing_floor"
UpdateFloor(t, d) ==
    LET a1 == IF t.triggered THEN "False" ELSE t.active
        c1 == IF t.triggered /\ t.cooldown <= 0 THEN 2100 ELSE t.cooldown
        c2 == IF c1 > 0 THEN c1 - d ELSE c1
        back == c1 > 0 /\ c2 <= 0
    IN  [t EXCEPT !.cooldown = c2,
                  !.triggered = IF back THEN FALSE ELSE t.triggered,
                  !.active = IF back THEN "True" ELSE a1]

\* mutant of UpdateBlock: a block that has fallen out of the world stays there
UpdateBlockGone(t, d) ==
    LET falls == t.triggered /\ Truthy(t.active)
        y1 == IF falls THEN t.rect.y + Trunc(820 * d, 1000) ELSE t.rect.y
        gone == falls /\ y1 > HEIGHT + 250
        a1 == IF gone THEN "False" ELSE t.active
        c1 == IF gone THEN 1500 ELSE t.cooldown
        c2 == IF ~Truthy(a1) THEN c1 - d ELSE c1
    IN  [t EXCEPT !.cooldown = c2, !.active = a1, !.rect.y = y1]

\* "falling_block"
UpdateBlock(t, d) ==
    LET falls == t.triggered /\ Truthy(t.active)
        y1 == IF falls THEN t.rect.y + Trunc(820 * d, 1000) ELSE t.rect.y
        gone == falls /\ y1 > HEIGHT + 250
        a1 == IF gone THEN "False" ELSE t.active
        c1 == IF gone THEN 1500 ELSE t.cooldown
        c2 == IF ~Truthy(a1) THEN c1 - d ELSE c1
        back == ~Truthy(a1) /\ c2 <= 0
    IN  [t EXCEPT !.cooldown = c2,
                  !.active = IF back THEN "True" ELSE a1,
                  !.triggered = IF back THEN FALSE ELSE t.triggered,
                  !.rect.x = IF back THEN t.base_x ELSE t.rect.x,
                  !.rect.y = IF back THEN t.base_y ELSE y1]

\* mutant of UpdateHidden: the spikes go inactive only once the cooldown is
\* below zero
UpdateHiddenLate(t, d) ==
    IF Truthy(t.active) /\ t.cooldown > 0
    THEN [t EXCEPT !.cooldown = t.cooldown - d,
                   !.active = IF t.cooldown - d < 0 THEN "False" ELSE t.active]
    ELSE t

\* "hidden_spikes"
UpdateHidden(t, d) ==
    IF Truthy(t.active) /\ t.cooldown > 0
    THEN [t EXCEPT !.cooldown = t.cooldown - d,
                   !.active = IF t.cooldown - d <= 0 THEN "False" ELSE t.active]
    ELSE t

\* mutant of UpdatePit: at the top the pit starts to descend at once
UpdatePitNoHold(t, d) ==
    IF t.active = "True" THEN
        LET y1 == t.rect.y - Trunc(920 * d, 1000)
        IN  IF y1 <= HEIGHT - 230
            THEN [t EXCEPT !.rect.y = HEIGHT - 230, !.cooldown = 900,
                           !.active = "down"]
            ELSE [t EXCEPT !.rect.y = y1]
    ELSE IF t.active = "hold" THEN
        [t EXCEPT !.cooldown = t.cooldown - d,
                  !.active = IF t.cooldown - d <= 0 THEN "down" ELSE "hold"]
    ELSE IF t.active = "down" THEN
        LET y1 == t.rect.y + Trunc(960 * d, 1000)
        IN  IF y1 >= t.base_y
            THEN [t EXCEPT !.rect.y = t.base_y, !.active = "False"]
            ELSE [t EXCEPT !.rect.y = y1]
    ELSE t

\* "rising_pit"
UpdatePit(t, d) ==
    IF t.active = "True" THEN
        LET y1 == t.rect.y - Trunc(920 * d, 1000)
        IN  IF y1 <= HEIGHT - 230
            THEN [t EXCEPT !.rect.y = HEIGHT - 230, !.cooldown = 900,
                           !.active = "hold"]
            ELSE [t EXCEPT !.rect.y = y1]
    ELSE IF t.active = "hold" THEN
        [t EXCEPT !.cooldown = t.cooldown - d,
                  !.active = IF t.cooldown - d <= 0 THEN "down" ELSE "hold"]
    ELSE IF t.active = "down" THEN
        LET y1 == t.rect.y + Trunc(960 * d, 1000)
        IN  IF y1 >= t.base_y
            THEN [t EXCEPT !.rect.y = t.base_y, !.active = "False"]
            ELSE [t EXCEPT !.rect.y = y1]
    ELSE t

\* "spawn_homing": whether this update spawns (cooldown after its decrement)
SpawnCooldown(t, d) == IF t.cooldown > 0 THEN t.cooldown - d ELSE t.cooldown

\* mutant of Spawns: the cooldown is not looked at
SpawnsUngated(t, d, prect) ==
    /\ t.kind = "spawn_homing"
    /\ colliderect(prect, t.rect)

Spawns(t, d, prect) ==
    /\ t.kind = "spawn_homing"
    /\ colliderect(prect, t.rect)
    /\ SpawnCooldown(t, d) <= 0

UpdateSpawner(t, d, prect) ==
    [t EXCEPT !.cooldown = IF Spawns(t, d, prect) THEN 1200
                           ELSE SpawnCooldown(t, d)]

\* one iteration of "for t in self.traps"
UpdateTrap(t0, d, prect) ==
    LET t == [t0 EXCEPT !.t = t0.t + d]
    IN  CASE t.kind = "laser" -> UpdateLaser(t)
          [] t.kind = "shifting_wall" -> UpdateWall(t, d)
          [] t.kind = "collapsing_floor" -> UpdateFloor(t, d)
          [] t.kind = "falling_block" -> UpdateBlock(t, d)
          [] t.kind = "hidden_spikes" -> UpdateHidden(t, d)
          [] t.kind = "rising_pit" -> UpdatePit(t, d)
          [] t.kind = "spawn_homing" -> UpdateSpawner(t, d, prect)
          [] OTHER -> t

\* Projectile(start, vel, radius=11, active=True, homing=True, ttl=5.5);
\* oy and vy are the two random.uniform draws, in whole px and px/s
NewProjectile(t, oy, vy) ==
    [pos |-> [x |-> (Left(t.rect) - 18) * PosScale,
              y |-> (CenterY(t.rect) + oy) * PosScale],
     vel |-> [x |-> 230 * VelScale, y |-> vy * VelScale],
     radius |-> 11, active |-> TRUE, homing |-> TRUE, ttl |-> 5500]

\* the projectiles appended by the trap loop, in trap order
RECURSIVE Spawned(_, _, _, _, _, _)
Spawned(ts, i, d, prect, oy, vy) ==
    IF i > Len(ts) THEN << >>
    ELSE (IF Spawns(ts[i], d, prect) THEN << NewProjectile(ts[i], oy, vy) >>
          ELSE << >>) \o Spawned(ts, i + 1, d, prect, oy, vy)

\* floor(sqrt(n)) by bisection
RECURSIVE SqrtBetween(_, _, _)
SqrtBetween(n, lo, hi) ==
    IF lo >= hi THEN lo
    ELSE LET mid == (lo + hi + 1) \div 2
         IN  IF mid * mid <= n THEN SqrtBetween(n, mid, hi)
             ELSE SqrtBetween(n, lo, mid - 1)

ISqrt(n) == SqrtBetween(n, 0, 46340)

\* Steer with the target velocity pointing away from the player
SteerAway(q, d, prect) ==
    LET dx == Trunc(CenterX(prect) * PosScale - q.pos.x, PosScale \div 10)
        dy == Trunc(CenterY(prect) * PosScale - q.pos.y, PosScale \div 10)
        len == ISqrt(dx * dx + dy * dy - 1) + 1
        f == Min(10000, 14 * d)
    IN  IF dx * dx + dy * dy > 1
        THEN [x |-> q.vel.x + Trunc((Trunc(-310 * VelScale * dx, len) - q.vel.x) * f, 10000),
              y |-> q.vel.y + Trunc((Trunc(-310 * VelScale * dy, len) - q.vel.y) * f, 10000)]
        ELSE q.vel

\* p.vel.lerp(to_player.normalize() * 310, min(1.0, dt * 1.4)), with
\* to_player (dx, dy) in 1/10 px, so that length() > 0.1 is
\* dx * dx + dy * dy > 1; len is the length rounded up to 1/10 px and the
\* components of the target velocity are truncated, which keeps the
\* target's length at or below 310 px/s
Steer(q, d, prect) ==
    LET dx == Trunc(CenterX(prect) * PosScale - q.pos.x, PosScale \div 10)
        dy == Trunc(CenterY(prect) * PosScale - q.pos.y, PosScale \div 10)
        len == ISqrt(dx * dx + dy * dy - 1) + 1
        f == Min(10000, 14 * d)
    IN  IF dx * dx + dy * dy > 1
        THEN [x |-> q.vel.x + Trunc((Trunc(310 * VelScale * dx, len) - q.vel.x) * f, 10000),
              y |-> q.vel.y + Trunc((Trunc(310 * VelScale * dy, len) - q.vel.y) * f, 10000)]
        ELSE q.vel

\* one iteration of "for p in self.projectiles"
UpdateProjectile(q, d, prect) ==
    IF ~q.active THEN q
    ELSE IF q.ttl - d <= 0 THEN [q EXCEPT !.ttl = q.ttl - d, !.active = FALSE]
    ELSE LET v == IF q.homing THEN Steer(q, d, prect) ELSE q.vel
             x == q.pos.x + v.x * d
             y == q.pos.y + v.y * d
             out == \/ x < -260 * PosScale
                    \/ x > (WorldW + 260) * PosScale
                    \/ y < -260 * PosScale
                    \/ y > (HEIGHT + 260) * PosScale
         IN  [q EXCEPT !.ttl = q.ttl - d, !.vel = v, !.pos = [x |-> x, y |-> y],
                       !.active = ~out]

\* mutant of Compact: the list is kept as it is
CompactNothing(qs) == qs

\* self.projectiles = [p for p in self.projectiles if p.active]
RECURSIVE Compact(_)
Compact(qs) ==
    IF qs = << >> THEN << >>
    ELSE (IF Head(qs).active THEN << Head(qs) >> ELSE << >>) \o Compact(Tail(qs))

\* the player's rect
PlayerRect(p) == Rect(p.rect_x, p.rect_y, PLAYER_SIZE, PLAYER_SIZE)

\* the values drawn for random.uniform(-70, 70) and random.uniform(-45, 45)
\* when a projectile is spawned (nothing is drawn otherwise)
AnySpawn(ts, d, prect) == \E i \in 1..Len(ts) : Spawns(ts[i], d, prect)
SpawnOffsets(any) == IF any THEN {-70, 0, 70} ELSE {0}
SpawnVels(any) == IF any THEN {-45, 45} ELSE {0}

\* Level.update(dt, player.rect)
LevelUpdate ==
    /\ pc = "level"
    /\ \E oy \in SpawnOffsets(AnySpawn(traps, dt, PlayerRect(player))),
          vy \in SpawnVels(AnySpawn(traps, dt, PlayerRect(player))) :
          LET prect == PlayerRect(player)
              qs == projectiles \o Spawned(traps, 1, dt, prect, oy, vy)
          IN  /\ traps' = [i \in 1..Len(traps) |-> UpdateTrap(traps[i], dt, prect)]
              /\ projectiles' =
                    Compact([i \in 1..Len(qs) |-> UpdateProjectile(qs[i], dt, prect)])
    /\ level_time' = level_time + dt
    /\ pc' = "player"
    /\ UNCHANGED <<frame, dt, keys, mode, player, prev_rect, level_idx, doors,
                   died, deaths, finished, hr, udp>>

(***************************************************************************)
(* Player                                                                  *)
(***************************************************************************)
\* Player.__init__(x, y, sprite)
NewPlayer(x, y) ==
    [pos_x |-> x * PosScale, pos_y |-> y * PosScale, rect_x |-> x, rect_y |-> y,
     vx |-> 0, vy |-> 0, on_ground |-> FALSE, facing |-> 1,
     spawn_x |-> x * PosScale, spawn_y |-> y * PosScale,
     coyote |-> 0, jump_buf |-> 0,
     gravity_flipped |-> FALSE, gravity_flip_timer |-> 0,
     swap_lr |-> FALSE, swap_lr_timer |-> 0,
     swap_jump |-> FALSE, swap_jump_timer |-> 0,
     flash_charges |-> 0, flash_active |-> FALSE, flash_timer |-> 0,
     i_frames |-> 0]

\* Player.set_spawn(x, y)
set_spawn(p, x, y) == [p EXCEPT !.spawn_x = x * PosScale, !.spawn_y = y * PosScale]

\* Player.respawn()
respawn(p) ==
    [p EXCEPT !.pos_x = p.spawn_x, !.pos_y = p.spawn_y,
              !.vx = 0, !.vy = 0, !.on_ground = FALSE,
              !.coyote = 0, !.jump_buf = 0,
              !.gravity_flipped = FALSE, !.gravity_flip_timer = 0,
              !.swap_lr = FALSE, !.swap_lr_timer = 0,
              !.swap_jump = FALSE, !.swap_jump_timer = 0,
              !.flash_active = FALSE, !.flash_timer = 0,
              !.i_frames = RESPAWN_I_FRAMES,
              !.rect_x = ToPx(p.spawn_x), !.rect_y = ToPx(p.spawn_y)]

\* Player.update, lines 917-943: the timers and the flash activation
UpdateTimers(p, d, k) ==
    LET gt == IF p.gravity_flipped THEN p.gravity_flip_timer - d
              ELSE p.gravity_flip_timer
        lt == IF p.swap_lr THEN p.swap_lr_timer - d ELSE p.swap_lr_timer
        jt == IF p.swap_jump THEN p.swap_jump_timer - d ELSE p.swap_jump_timer
        ft == IF p.flash_active THEN p.flash_timer - d ELSE p.flash_timer
        fa == p.flash_active /\ ft > 0
        go == k.flash /\ ~fa /\ p.flash_charges > 0
    IN  [p EXCEPT !.i_frames = IF p.i_frames > 0 THEN p.i_frames - d ELSE p.i_frames,
                  !.gravity_flip_timer = gt,
                  !.gravity_flipped = p.gravity_flipped /\ gt > 0,
                  !.swap_lr_timer = lt,
                  !.swap_lr = p.swap_lr /\ lt > 0,
                  !.swap_jump_timer = jt,
                  !.swap_jump = p.swap_jump /\ jt > 0,
                  !.flash_charges = IF go THEN p.flash_charges - 1 ELSE p.flash_charges,
                  !.flash_active = fa \/ go,
                  !.flash_timer = IF go THEN FLASH_DURATION ELSE ft]

\* Player.update, lines 945-966: horizontal intent
UpdateMove(p, k, m) ==
    LET sm == (IF m = "stress" THEN STRESS_SPEED_MULT ELSE MultDen)
              * (IF p.flash_active THEN FLASH_SPEED_MULT ELSE MultDen)
        raw == (IF k.left THEN -1 ELSE 0) + (IF k.right THEN 1 ELSE 0)
        move == IF p.swap_lr THEN -raw ELSE raw
    IN  [p EXCEPT !.vx = (move * BASE_MOVE_SPEED * VelScale * sm) \div (MultDen * MultDen),
                  !.facing = IF move > 0 THEN 1 ELSE IF move < 0 THEN -1 ELSE p.facing]

\* jump_pressed, after the jump-swap redefinition
JumpPressed(p, k) == IF p.swap_jump THEN k.down ELSE k.jump

\* mutant of JumpTest: either timer alone lets the jump through
JumpTestEither(jump_buf, coyote) == jump_buf > 0 \/ coyote > 0

\* the jump test of line 982
JumpTest(jump_buf, coyote) == jump_buf > 0 /\ coyote > 0

\* Player.update, lines 968-987: jump buffer, coyote time, jump
UpdateJump(p, d, k, m) ==
    LET jb == IF JumpPressed(p, k) THEN 100 ELSE Max(0, p.jump_buf - d)
        co == IF p.on_ground THEN 100 ELSE Max(0, p.coyote - d)
        v == (BASE_JUMP_VEL * VelScale
              * (IF m = "stress" THEN STRESS_JUMP_MULT ELSE MultDen)) \div MultDen
    IN  IF JumpTest(jb, co)
        THEN [p EXCEPT !.vy = IF p.gravity_flipped THEN -v ELSE v,
                       !.jump_buf = 0, !.coyote = 0, !.on_ground = FALSE]
        ELSE [p EXCEPT !.jump_buf = jb, !.coyote = co]

\* mutant of UpdateGravity: gravity accumulates on the ground too
UpdateGravityAlways(p, d) ==
    LET g == IF p.gravity_flipped THEN -GRAVITY ELSE GRAVITY
    IN  [p EXCEPT !.vy = clamp(p.vy + (g * VelScale * d) \div 1000,
                               -1600 * VelScale, 1600 * VelScale)]

\* Player.update, lines 989-998: gravity and the vy clamp
UpdateGravity(p, d) ==
    LET g == IF p.gravity_flipped THEN -GRAVITY ELSE GRAVITY
        vy == IF p.on_ground /\ ~p.gravity_flipped THEN 0
              ELSE p.vy + (g * VelScale * d) \div 1000
    IN  [p EXCEPT !.vy = clamp(vy, -1600 * VelScale, 1600 * VelScale)]

\* Player.update(dt, keys, mode)
update(p, d, k, m) ==
    UpdateGravity(UpdateJump(UpdateMove(UpdateTimers(p, d, k), k, m), d, k, m), d)

PlayerUpdate ==
    /\ pc = "player"
    /\ player' = update(player, dt, keys, mode)
    /\ pc' = "physics"
    /\ UNCHANGED <<frame, dt, keys, mode, prev_rect, level_idx, traps, projectiles,
                   doors, level_time, died, deaths, finished, hr, udp>>

(***************************************************************************)
(* resolve_physics                                                         *)
(***************************************************************************)
\* platform_is_active(level, rect): the first collapsing_floor trap whose rect
\* equals the platform's decides; any other platform is active
RECURSIVE FloorScan(_, _, _)
FloorScan(ts, i, rect) ==
    IF i > Len(ts) THEN TRUE
    ELSE IF ts[i].rect = rect /\ ts[i].kind = "collapsing_floor"
         THEN Truthy(ts[i].active)
         ELSE FloorScan(ts, i + 1, rect)

\* mutant of platform_is_active: every platform is active
platform_is_always_active(ts, rect) == TRUE

platform_is_active(ts, rect) == FloorScan(ts, 1, rect)

\* mutant of MoveX: the move is not clamped to the world
MoveXUnclamped(p, d) ==
    LET x == p.pos_x + p.vx * d
    IN  [p EXCEPT !.pos_x = x, !.rect_x = ToPx(x)]

\* lines 1030-1032: move in X, clamp to the world, derive the rect
MoveX(p, d) ==
    LET x == clamp(p.pos_x + p.vx * d, 0, (WorldW - PLAYER_SIZE) * PosScale)
    IN  [p EXCEPT !.pos_x = x, !.rect_x = ToPx(x)]

\* mutant of ClipX: a player moving left is clipped like one moving right
ClipXOneSided(p, plat, ts) ==
    IF platform_is_active(ts, plat) /\ colliderect(PlayerRect(p), plat)
    THEN IF p.vx # 0
         THEN [p EXCEPT !.rect_x = Left(plat) - PLAYER_SIZE,
                        !.pos_x = (Left(plat) - PLAYER_SIZE) * PosScale, !.vx = 0]
         ELSE p
    ELSE p

\* lines 1035-1045: one platform of the X pass
ClipX(p, plat, ts) ==
    IF platform_is_active(ts, plat) /\ colliderect(PlayerRect(p), plat)
    THEN IF p.vx > 0
         THEN [p EXCEPT !.rect_x = Left(plat) - PLAYER_SIZE,
                        !.pos_x = (Left(plat) - PLAYER_SIZE) * PosScale, !.vx = 0]
         ELSE IF p.vx < 0
         THEN [p EXCEPT !.rect_x = Right(plat),
                        !.pos_x = Right(plat) * PosScale, !.vx = 0]
         ELSE p
    ELSE p

\* "for p in level.platforms" of the X pass.  (The loops below bind each
\* intermediate value with a quantifier over a one-element set, so that it is
\* computed once, before the next iteration.)
RECURSIVE LoopX(_, _, _, _)
LoopX(p, plats, i, ts) ==
    IF i > Len(plats) THEN p
    ELSE CHOOSE r \in {LoopX(q, plats, i + 1, ts) : q \in {ClipX(p, plats[i], ts)}} : TRUE

\* the X pass
PassX(p, plats, ts, d) ==
    CHOOSE r \in {LoopX(q, plats, 1, ts) : q \in {MoveX(p, d)}} : TRUE

\* mutant of MoveY: on_ground is not cleared before the platform loop
MoveYKeepGround(p, d) ==
    LET y == p.pos_y + p.vy * d
    IN  [p EXCEPT !.pos_y = y, !.rect_y = ToPx(y)]

\* lines 1051-1054: move in Y, derive the rect, clear on_ground
MoveY(p, d) ==
    LET y == p.pos_y + p.vy * d
    IN  [p EXCEPT !.pos_y = y, !.rect_y = ToPx(y), !.on_ground = FALSE]

\* snap rect.bottom / rect.top to a platform edge
SnapBottom(p, plat, ground) ==
    [p EXCEPT !.rect_y = Top(plat) - PLAYER_SIZE,
              !.pos_y = (Top(plat) - PLAYER_SIZE) * PosScale,
              !.vy = 0, !.on_ground = IF ground THEN TRUE ELSE p.on_ground]

\* SnapTop with pos.y left where the move put it
SnapTopKeepPos(p, plat, ground) ==
    [p EXCEPT !.rect_y = Bottom(plat),
              !.vy = 0, !.on_ground = IF ground THEN TRUE ELSE p.on_ground]

\* lines 1075-1078 and 1083-1086: rect.top = p.bottom
SnapTop(p, plat, ground) ==
    [p EXCEPT !.rect_y = Bottom(plat), !.pos_y = Bottom(plat) * PosScale,
              !.vy = 0, !.on_ground = IF ground THEN TRUE ELSE p.on_ground]

\* mutant of CrossesTop: the test is on the rect reached, not on the sweep
CrossesTopUnswept(p, prev, plat) ==
    p.vy >= 0 /\ Bottom(prev) <= Top(plat) /\ colliderect(PlayerRect(p), plat)

\* the swept tests of lines 1067, 1074, 1083, 1090
CrossesTop(p, prev, plat) ==
    p.vy >= 0 /\ Bottom(prev) <= Top(plat) /\ Bottom(PlayerRect(p)) >= Top(plat)

CrossesBottom(p, prev, plat) ==
    p.vy <= 0 /\ Top(prev) >= Bottom(plat) /\ Top(PlayerRect(p)) <= Bottom(plat)

\* lines 1057-1093: one platform of the Y pass
LandY(p, prev, plat, ts) ==
    IF ~platform_is_active(ts, plat) THEN p
    ELSE IF ~(Right(PlayerRect(p)) > Left(plat) /\ Left(PlayerRect(p)) < Right(plat))
    THEN p
    ELSE IF ~p.gravity_flipped
    THEN IF CrossesTop(p, prev, plat) THEN SnapBottom(p, plat, TRUE)
         ELSE IF CrossesBottom(p, prev, plat) THEN SnapTop(p, plat, FALSE)
         ELSE p
    ELSE IF CrossesBottom(p, prev, plat) THEN SnapTop(p, plat, TRUE)
         ELSE IF CrossesTop(p, prev, plat) THEN SnapBottom(p, plat, FALSE)
         ELSE p

RECURSIVE LoopY(_, _, _, _, _)
LoopY(p, prev, plats, i, ts) ==
    IF i > Len(plats) THEN p
    ELSE CHOOSE r \in {LoopY(q, prev, plats, i + 1, ts) :
                       q \in {LandY(p, prev, plats[i], ts)}} : TRUE

\* the Y pass; prev is the rect after the X pass
PassY(p, plats, ts, d) ==
    CHOOSE r \in {LoopY(q, PlayerRect(p), plats, 1, ts) : q \in {MoveY(p, d)}} : TRUE

\* lines 1096-1099: out of bounds
OutOfBounds(p) ==
    \/ ~p.gravity_flipped /\ Top(PlayerRect(p)) > HEIGHT + 220
    \/ p.gravity_flipped /\ Bottom(PlayerRect(p)) < -220

\* mutant of ArmHidden: only the spikes that are inactive are armed
ArmHiddenOnce(ts) ==
    [j \in 1..Len(ts) |->
        IF ts[j].kind = "hidden_spikes" /\ ~Truthy(ts[j].active)
        THEN [ts[j] EXCEPT !.active = "True", !.cooldown = 2000]
        ELSE ts[j]]

\* lines 1113-1116: "for h in level.traps"
ArmHidden(ts) ==
    [j \in 1..Len(ts) |->
        IF ts[j].kind = "hidden_spikes"
        THEN [ts[j] EXCEPT !.active = "True", !.cooldown = 2000]
        ELSE ts[j]]

\* mutant of ArmPit: the pit is set rising whatever its phase
ArmPitAlways(ts) ==
    [j \in 1..Len(ts) |->
        IF ts[j].kind = "rising_pit"
        THEN [ts[j] EXCEPT !.active = "True"]
        ELSE ts[j]]

\* lines 1138-1140: "for rp in level.traps"
ArmPit(ts) ==
    [j \in 1..Len(ts) |->
        IF ts[j].kind = "rising_pit" /\ ts[j].active = "False"
        THEN [ts[j] EXCEPT !.active = "True"]
        ELSE ts[j]]

\* lines 1147-1150: "for ds in level.traps"
ArmDelayed(ts) ==
    [j \in 1..Len(ts) |->
        IF ts[j].kind = "delayed_spikes" /\ ~ts[j].used
        THEN [ts[j] EXCEPT !.used = TRUE, !.active = "True"]
        ELSE ts[j]]

\* mutant of UnderBlock: the block is triggered from any depth below it
UnderBlockAnyDepth(pr, t) ==
    /\ Truthy(t.active)
    /\ CenterX(pr) > Left(t.rect) /\ CenterX(pr) < Right(t.rect)
    /\ Top(pr) > Bottom(t.rect)

\* lines 1126-1129: the falling_block trigger test
UnderBlock(pr, t) ==
    /\ Truthy(t.active)
    /\ CenterX(pr) > Left(t.rect) /\ CenterX(pr) < Right(t.rect)
    /\ Top(pr) > Bottom(t.rect) /\ Top(pr) - Bottom(t.rect) < 280

\* mutant of ArmFlip: the timer is set again on every overlap
ArmFlipAlways(p) ==
    [p EXCEPT !.gravity_flipped = TRUE, !.gravity_flip_timer = 2200]

\* lines 1157-1159: the body of the gravity_flip_zone test
ArmFlip(p) ==
    IF ~p.gravity_flipped
    THEN [p EXCEPT !.gravity_flipped = TRUE, !.gravity_flip_timer = 2200]
    ELSE p

\* ArmSwap with both timers set again on every overlap
ArmSwapAlways(p) ==
    [p EXCEPT !.swap_lr = TRUE, !.swap_lr_timer = INPUT_SWAP_DURATION,
              !.swap_jump = TRUE, !.swap_jump_timer = JUMP_SWAP_DURATION]

\* lines 1162-1167: the body of the input_swap_zone test
ArmSwap(p) ==
    [p EXCEPT !.swap_lr = TRUE,
              !.swap_lr_timer = IF p.swap_lr THEN p.swap_lr_timer
                                ELSE INPUT_SWAP_DURATION,
              !.swap_jump = TRUE,
              !.swap_jump_timer = IF p.swap_jump THEN p.swap_jump_timer
                                  ELSE JUMP_SWAP_DURATION]

\* lines 1107-1167: one iteration of "for t in level.traps", on
\* st = [p, ts, died]
HazardStep(st, i, d) ==
    LET t == st.ts[i]
        pr == PlayerRect(st.p)
        hit == colliderect(pr, t.rect)
        kill == [st EXCEPT !.died = TRUE]
    IN  CASE t.kind = "spikes" -> IF hit THEN kill ELSE st
          [] t.kind = "laser" -> IF Truthy(t.active) /\ hit THEN kill ELSE st
          [] t.kind = "trigger_hidden_spikes" ->
                IF hit THEN [st EXCEPT !.ts = ArmHidden(st.ts)]
                ELSE st
          [] t.kind = "hidden_spikes" -> IF Truthy(t.active) /\ hit THEN kill ELSE st
          [] t.kind = "collapsing_floor" ->
                IF Truthy(t.active) /\ st.p.on_ground /\ hit
                THEN [st EXCEPT !.ts[i].triggered = TRUE]
                ELSE st
          [] t.kind = "falling_block" ->
                [st EXCEPT !.ts[i].triggered = t.triggered \/ UnderBlock(pr, t),
                           !.died = st.died \/ (Truthy(t.active) /\ hit)]
          [] t.kind = "shifting_wall" ->
                IF hit
                THEN LET x == clamp(st.p.pos_x + t.dir * 240 * d * (PosScale \div 1000),
                                    0, (WorldW - PLAYER_SIZE) * PosScale)
                     IN  [st EXCEPT !.p.pos_x = x, !.p.rect_x = ToPx(x)]
                ELSE st
          [] t.kind = "trigger_rising_pit" ->
                IF hit THEN [st EXCEPT !.ts = ArmPit(st.ts)]
                ELSE st
          [] t.kind = "rising_pit" -> IF Truthy(t.active) /\ hit THEN kill ELSE st
          [] t.kind = "arm_delayed_spikes" ->
                IF hit THEN [st EXCEPT !.ts = ArmDelayed(st.ts)]
                ELSE st
          [] t.kind = "delayed_spikes" -> IF Truthy(t.active) /\ hit THEN kill ELSE st
          [] t.kind = "gravity_flip_zone" ->
                IF hit THEN [st EXCEPT !.p = ArmFlip(st.p)] ELSE st
          [] t.kind = "input_swap_zone" ->
                IF hit THEN [st EXCEPT !.p = ArmSwap(st.p)] ELSE st
          [] OTHER -> st

RECURSIVE HazardLoop(_, _, _)
HazardLoop(st, i, d) ==
    IF i > Len(st.ts) THEN st
    ELSE CHOOSE r \in {HazardLoop(s, i + 1, d) : s \in {HazardStep(st, i, d)}} : TRUE

\* lines 1171: the projectile's box
ProjectileRect(q) ==
    Rect(ToPx(q.pos.x - q.radius * PosScale), ToPx(q.pos.y - q.radius * PosScale),
         q.radius * 2, q.radius * 2)

\* lines 1170-1174: the projectile loop (the player's rect no longer changes)
HitProjectiles(qs, pr) ==
    [j \in 1..Len(qs) |->
        IF colliderect(pr, ProjectileRect(qs[j])) THEN [qs[j] EXCEPT !.active = FALSE]
        ELSE qs[j]]

AnyProjectileHit(qs, pr) ==
    \E j \in 1..Len(qs) : colliderect(pr, ProjectileRect(qs[j]))

\* mutant of Invulnerable: the i-frame test never holds
InvulnerableNever(p) == FALSE

\* line 1102: the i-frame test
Invulnerable(p) == p.i_frames > 0

\* line 1103: what the call returns while i-frames remain
IFrameReturn(dead) == FALSE

\* resolve_physics(player, level, dt): the player after the two passes, and
\* the whole call's result [p, ts, qs, prev, died]
AfterPasses(p, plats, ts, d) == PassY(PassX(p, plats, ts, d), plats, ts, d)

\* mutant of HazardPass: the call returns as soon as a death is found, the
\* player and the traps being what they were before the trap loop
HazardPassDeathOnly(px, py, ts, qs, d) ==
    CHOOSE r \in
        {[p |-> IF st.died THEN py ELSE st.p,
          ts |-> IF st.died THEN ts ELSE st.ts,
          qs |-> HitProjectiles(qs, PlayerRect(st.p)),
          prev |-> PlayerRect(px),
          died |-> st.died \/ AnyProjectileHit(qs, PlayerRect(st.p))] :
            st \in {HazardLoop([p |-> py, ts |-> ts, died |-> OutOfBounds(py)], 1, d)}} :
        TRUE

\* lines 1105-1176: the trap loop and the projectile loop
HazardPass(px, py, ts, qs, d) ==
    CHOOSE r \in
        {[p |-> st.p, ts |-> st.ts,
          qs |-> HitProjectiles(qs, PlayerRect(st.p)),
          prev |-> PlayerRect(px),
          died |-> st.died \/ AnyProjectileHit(qs, PlayerRect(st.p))] :
            st \in {HazardLoop([p |-> py, ts |-> ts, died |-> OutOfBounds(py)], 1, d)}} :
        TRUE

\* mutant of AfterY: i-frames cancel the death and nothing else
AfterYDeathless(px, py, ts, qs, d) ==
    [HazardPass(px, py, ts, qs, d) EXCEPT !.died = ~Invulnerable(py) /\ @]

AfterY(px, py, ts, qs, d) ==
    IF Invulnerable(py)
    THEN [p |-> py, ts |-> ts, qs |-> qs, prev |-> PlayerRect(px),
          died |-> IFrameReturn(OutOfBounds(py))]
    ELSE HazardPass(px, py, ts, qs, d)

resolve_physics(p, plats, ts, qs, d) ==
    CHOOSE r \in
        {AfterY(px, py, ts, qs, d) :
            <<px, py>> \in {<<x, PassY(x, plats, ts, d)>> : x \in {PassX(p, plats, ts, d)}}} :
        TRUE

ResolvePhysics ==
    /\ pc = "physics"
    /\ \E r \in {resolve_physics(player, Platforms(level_idx), traps, projectiles, dt)} :
           /\ player' = r.p
           /\ traps' = r.ts
           /\ projectiles' = r.qs
           /\ prev_rect' = r.prev
           /\ died' = r.died
    /\ pc' = "react"
    /\ UNCHANGED <<frame, dt, keys, mode, level_idx, doors, level_time, deaths,
                   finished, hr, udp>>

(***************************************************************************)
(* HeartRateController.  current and _target are in 1/1000 bpm (HrScale),  *)
(* _timer in ms; the product (target - current) * min(1.0, dt * 2.0) is    *)
(* truncated to 1/1000 bpm.  mode_override is "None", "stress" or "panic". *)
(***************************************************************************)
HrScale == 10 * 100

\* HeartRateController.__init__(baseline_bpm)
HeartRateController(baseline_bpm) ==
    [baseline |-> baseline_bpm, current |-> baseline_bpm * HrScale,
     target |-> baseline_bpm * HrScale, timer |-> 0, mode_override |-> "None"]

\* line 187: the test that makes update draw a new target
Redraw(h, d) == h.timer + d > 1000

\* lines 188-192: what random.random() and random.uniform can add to the
\* baseline, in whole bpm: (12, 30) for a spike, (-6, 12) otherwise
Offsets == -6..30

\* line 194: min(1.0, dt * 2.0), in 1/1000
SmoothRate(d) == Min(1000, 2 * d)

\* HeartRateController.update(dt, keys), u being the offset drawn
hr_update(h, d, k, u) ==
    LET c1 == h.current + (IF k.hr_up THEN 60 * d ELSE 0)
                        - (IF k.hr_down THEN 60 * d ELSE 0)
        t1 == IF Redraw(h, d) THEN (h.baseline + u) * HrScale ELSE h.target
        c2 == c1 + Trunc((t1 - c1) * SmoothRate(d), 1000)
    IN  [h EXCEPT !.timer = IF Redraw(h, d) THEN 0 ELSE h.timer + d,
                  !.target = t1,
                  !.current = clamp(c2, 45 * HrScale, 190 * HrScale)]

\* Python's round() of a non-negative value in 1/1000: to the nearest
\* integer, a tie to the even one
round(c) ==
    LET q == c \div HrScale
        r == c % HrScale
    IN  IF 2 * r < HrScale THEN q
        ELSE IF 2 * r > HrScale THEN q + 1
        ELSE IF q % 2 = 0 THEN q ELSE q + 1

\* HeartRateController.bpm()
bpm(h) == round(h.current)

STRESS_DELTA == 10
PANIC_DELTA == 20

\* mode() with the panic threshold included
hr_mode_inclusive(h) ==
    IF h.mode_override = "panic" THEN "panic"
    ELSE IF h.mode_override = "stress" THEN "stress"
    ELSE IF bpm(h) >= h.baseline + PANIC_DELTA THEN "panic"
    ELSE IF bpm(h) >= h.baseline + STRESS_DELTA THEN "stress"
    ELSE "normal"

\* HeartRateController.mode()
hr_mode(h) ==
    IF h.mode_override = "panic" THEN "panic"
    ELSE IF h.mode_override = "stress" THEN "stress"
    ELSE IF bpm(h) > h.baseline + PANIC_DELTA THEN "panic"
    ELSE IF bpm(h) >= h.baseline + STRESS_DELTA THEN "stress"
    ELSE "normal"

(***************************************************************************)
(* src/bpm_udp.py: the receiver of heart-rate datagrams.  A message is a   *)
(* sequence of characters, each named by a string: "sup2" is U+00B2        *)
(* (SUPERSCRIPT TWO) and "\"bpm\"" the five characters of the JSON string  *)
(* "bpm", which only ever occur together.  The result of parse_bpm is      *)
(* IntOf(v), None, or Raised when an exception leaves it.                    *)
(***************************************************************************)
Chars == {"8", "5", ".", ":", " ", "x", "{", "}", "sup2", "\"bpm\""}

None == [tag |-> "None", v |-> 0]
IntOf(n) == [tag |-> "int", v |-> n]
Raised == [tag |-> "raise", v |-> 0]

\* str.isdigit() of one character: true of decimal digits and of other
\* characters with the Unicode property Digit, such as U+00B2
IsDigitChar(c) == c \in {"8", "5", "sup2"}

\* the digits float() and json.loads() accept
IsDecimalChar(c) == c \in {"8", "5"}

DigitValue(c) == IF c = "8" THEN 8 ELSE 5

\* str.strip()
RECURSIVE lstrip(_)
lstrip(m) == IF m # << >> /\ Head(m) = " " THEN lstrip(Tail(m)) ELSE m

RECURSIVE rstrip(_)
rstrip(m) ==
    IF m # << >> /\ m[Len(m)] = " " THEN rstrip(SubSeq(m, 1, Len(m) - 1)) ELSE m

strip(m) == rstrip(lstrip(m))

\* the position of the first c in m, 0 if there is none
Find(m, c) ==
    IF \E i \in 1..Len(m) : m[i] = c
    THEN CHOOSE i \in 1..Len(m) : m[i] = c /\ \A j \in 1..(i - 1) : m[j] # c
    ELSE 0

\* str.split(":")
RECURSIVE split(_)
split(m) ==
    IF Find(m, ":") = 0 THEN << m >>
    ELSE << SubSeq(m, 1, Find(m, ":") - 1) >>
         \o split(SubSeq(m, Find(m, ":") + 1, Len(m)))

\* p.replace(".", "", 1)
RemoveDot(p) ==
    IF Find(p, ".") = 0 THEN p
    ELSE SubSeq(p, 1, Find(p, ".") - 1) \o SubSeq(p, Find(p, ".") + 1, Len(p))

\* str.isdigit()
isdigit(p) == p # << >> /\ \A i \in 1..Len(p) : IsDigitChar(p[i])

\* the integer a sequence of decimal digits writes
RECURSIVE Decimal(_)
Decimal(p) ==
    IF p = << >> THEN 0
    ELSE 10 * Decimal(SubSeq(p, 1, Len(p) - 1)) + DigitValue(p[Len(p)])

RECURSIVE Pow10(_)
Pow10(n) == IF n = 0 THEN 1 ELSE 10 * Pow10(n - 1)

\* int(round(float(p))) for p made of digit characters and at most one ".":
\* float raises ValueError unless every digit is a decimal digit; round
\* takes a tie to the even integer
IntRoundFloat(p) ==
    IF \E i \in 1..Len(p) : p[i] # "." /\ ~IsDecimalChar(p[i]) THEN Raised
    ELSE LET den == IF Find(p, ".") = 0 THEN 1 ELSE Pow10(Len(p) - Find(p, "."))
             num == Decimal(RemoveDot(p))
             q == num \div den
             r == num % den
         IN  IF 2 * r < den THEN IntOf(q)
             ELSE IF 2 * r > den THEN IntOf(q + 1)
             ELSE IF q % 2 = 0 THEN IntOf(q) ELSE IntOf(q + 1)

\* a JSON number over Chars: digits with an optional fraction
IsJsonNumber(v) ==
    /\ v # << >>
    /\ \A i \in 1..Len(v) : v[i] = "." \/ IsDecimalChar(v[i])
    /\ Find(v, ".") # 0 =>
          /\ Find(v, ".") \notin {1, Len(v)}
          /\ Find(RemoveDot(v), ".") = 0

\* lines 26-33 for a message { ... }: over Chars the only objects json.loads
\* accepts are {} and {"bpm": v}; v is a number, the string "bpm" or another
\* such object; every exception is caught (line 32)
JsonBranch(m) ==
    LET inner == strip(SubSeq(m, 2, Len(m) - 1))
        rest == lstrip(Tail(inner))
        val == strip(Tail(rest))
    IN  IF inner = << >> THEN None
        ELSE IF Head(inner) # "\"bpm\"" THEN None
        ELSE IF rest = << >> THEN None
        ELSE IF Head(rest) # ":" THEN None
        ELSE IF IsJsonNumber(val) THEN IntRoundFloat(val)
        ELSE None

\* lines 38-41: "for p in reversed(parts)", from part i downwards; IntOf(v) or
\* Raised when the loop is left, None when it runs out
RECURSIVE ScanParts(_, _)
ScanParts(parts, i) ==
    IF i = 0 THEN None
    ELSE IF isdigit(RemoveDot(strip(parts[i]))) THEN IntRoundFloat(strip(parts[i]))
    ELSE ScanParts(parts, i - 1)

\* lines 43-47
PlainBranch(m) == IF isdigit(RemoveDot(m)) THEN IntRoundFloat(m) ELSE None

\* lines 35-47
ColonBranch(m) ==
    IF Find(m, ":") # 0 /\ ScanParts(split(m), Len(split(m))) # None
    THEN ScanParts(split(m), Len(split(m)))
    ELSE PlainBranch(m)

\* parse_bpm(msg) on the stripped message
ParseStripped(m) ==
    IF m = << >> THEN None
    ELSE IF Head(m) = "{" /\ m[Len(m)] = "}" THEN JsonBranch(m)
    ELSE ColonBranch(m)

parse_bpm(msg) == ParseStripped(strip(msg))

\* main's locals before its loop (lines 55-56): nothing reported yet; pcu is
\* the receiver's position: "recv" (in sock.recvfrom), "parse" (a datagram
\* has arrived) or "dead" (an exception has left main)
NewReceiver == [msg |-> << >>, last |-> None, raised |-> FALSE, pcu |-> "recv"]

\* line 60: sock.recvfrom returns the datagram m
Arrive(m) ==
    /\ udp.pcu = "recv"
    /\ udp' = [udp EXCEPT !.msg = m, !.pcu = "parse"]
    /\ UNCHANGED <<pc, frame, dt, keys, mode, player, prev_rect, level_idx, traps,
                   projectiles, doors, level_time, died, deaths, finished, hr>>

\* lines 61-73 on result r: only socket.timeout is caught (line 75), None is
\* skipped (line 64), a value is clamped and becomes last (line 73 leaves
\* last as it is only when it already is that value)
Handled(u, r) ==
    IF r = Raised THEN [u EXCEPT !.raised = TRUE, !.pcu = "dead"]
    ELSE IF r = None THEN [u EXCEPT !.pcu = "recv"]
    ELSE [u EXCEPT !.last = IntOf(Max(40, Min(200, r.v))), !.pcu = "recv"]

Handle ==
    /\ udp.pcu = "parse"
    /\ udp' = Handled(udp, parse_bpm(udp.msg))
    /\ UNCHANGED <<pc, frame, dt, keys, mode, player, prev_rect, level_idx, traps,
                   projectiles, doors, level_time, died, deaths, finished, hr>>

(***************************************************************************)
(* main: one frame of the loop                                             *)
(***************************************************************************)
\* the longest run explored under Spec, in frames
MaxFrames == 5

\* pygame.key.get_pressed(), reduced to the keys the simulation reads
Keys(l, r, j, dn, f) ==
    [left |-> l, right |-> r, jump |-> j, down |-> dn, flash |-> f,
     hr_up |-> FALSE, hr_down |-> FALSE]
NoKeys == Keys(FALSE, FALSE, FALSE, FALSE, FALSE)
KeyRight == Keys(FALSE, TRUE, FALSE, FALSE, FALSE)
KeyLeft == Keys(TRUE, FALSE, FALSE, FALSE, FALSE)
KeyJump == Keys(FALSE, FALSE, TRUE, FALSE, FALSE)
KeyRightJump == Keys(FALSE, TRUE, TRUE, FALSE, FALSE)

\* lines 1337-1357: clock.tick, the key state and the event loop; ev is
\* "none" or one key-down event: "respawn" (KEY_RESPAWN), "stress"
\* (KEY_FORCE_STRESS), "panic" (KEY_FORCE_PANIC) or "auto" (KEY_FORCE_AUTO);
\* limit bounds the run
BeginFrame(d, k, ev, limit) ==
    /\ pc = "frame"
    /\ frame < limit
    /\ frame' = frame + 1
    /\ dt' = d
    /\ keys' = k
    /\ player' = IF ev = "respawn" THEN respawn(player) ELSE player
    /\ projectiles' = IF ev = "respawn" THEN << >> ELSE projectiles
    /\ hr' = IF ev \in {"stress", "panic"} THEN [hr EXCEPT !.mode_override = ev]
             ELSE IF ev = "auto" THEN [hr EXCEPT !.mode_override = "None"]
             ELSE hr
    /\ pc' = "hr"
    /\ UNCHANGED <<mode, prev_rect, level_idx, traps, doors, level_time, died,
                   deaths, finished, udp>>

\* HrTick with hr.mode() read before hr.update
HrTickStale(U) ==
    /\ pc = "hr"
    /\ \E u \in (IF Redraw(hr, dt) THEN U ELSE {0}) :
           /\ hr' = hr_update(hr, dt, keys, u)
           /\ mode' = hr_mode(hr)
    /\ pc' = IF finished THEN "frame" ELSE "level"
    /\ UNCHANGED <<frame, dt, keys, player, prev_rect, level_idx, traps,
                   projectiles, doors, level_time, died, deaths, finished, udp>>

\* lines 1359-1362: hr.update(dt, keys), mode = hr.mode() and the test of
\* finished; U is the set of offsets random may draw
HrTick(U) ==
    /\ pc = "hr"
    /\ \E u \in (IF Redraw(hr, dt) THEN U ELSE {0}) :
           /\ hr' = hr_update(hr, dt, keys, u)
           /\ mode' = hr_mode(hr_update(hr, dt, keys, u))
    /\ pc' = IF finished THEN "frame" ELSE "level"
    /\ UNCHANGED <<frame, dt, keys, player, prev_rect, level_idx, traps,
                   projectiles, doors, level_time, died, deaths, finished, udp>>

\* OnDeath without level.projectiles.clear()
OnDeathKeepProjectiles(st, dead) ==
    IF dead
    THEN [st EXCEPT !.deaths = st.deaths + 1, !.p = respawn(st.p)]
    ELSE st

\* lines 1366-1370: the reaction to resolve_physics' result, on
\* st = [p, qs, ds, deaths]
OnDeath(st, dead) ==
    IF dead
    THEN [st EXCEPT !.deaths = st.deaths + 1, !.p = respawn(st.p), !.qs = << >>]
    ELSE st

\* mutant of DoorDrift: the door moves whatever the distance
DoorDriftAnywhere(dr, pr) ==
    IF dr.fake /\ dr.moves
    THEN clamp(dr.rect.x + 7, 0, WorldW - dr.rect.w)
    ELSE dr.rect.x

\* lines 1374-1377: rect.x of the door dr after its move, the player's rect
\* being pr
DoorDrift(dr, pr) ==
    LET ax == CenterX(pr) - CenterX(dr.rect)
        ay == CenterY(pr) - CenterY(dr.rect)
        dist == (IF ax < 0 THEN -ax ELSE ax) + (IF ay < 0 THEN -ay ELSE ay)
    IN  IF dr.fake /\ dr.moves /\ dist < 260
        THEN clamp(dr.rect.x + 7, 0, WorldW - dr.rect.w)
        ELSE dr.rect.x

\* mutant of DoorKills: a fake door kills through i-frames
DoorKillsAlways(dr, p) == dr.fake /\ colliderect(PlayerRect(p), dr.rect)

\* lines 1379-1380: the door dr kills the player p
DoorKills(dr, p) ==
    dr.fake /\ colliderect(PlayerRect(p), dr.rect) /\ p.i_frames <= 0

\* lines 1373-1383: one iteration of "for d in level.doors"
DoorStep(st, i) ==
    LET s1 == [st EXCEPT !.ds[i].rect.x = DoorDrift(st.ds[i], PlayerRect(st.p))]
    IN  OnDeath(s1, DoorKills(s1.ds[i], st.p))

RECURSIVE DoorLoop(_, _)
DoorLoop(st, i) ==
    IF i > Len(st.ds) THEN st
    ELSE CHOOSE r \in {DoorLoop(s, i + 1) : s \in {DoorStep(st, i)}} : TRUE

\* lines 1366-1399: everything main does after resolve_physics returned
React ==
    /\ pc = "react"
    /\ LET s0 == [p |-> player, qs |-> projectiles, ds |-> doors, deaths |-> deaths]
           s1 == DoorLoop(OnDeath(s0, died), 1)
           atDoor == colliderect(PlayerRect(s1.p), s1.ds[Len(s1.ds)].rect)
           p1 == IF atDoor /\ mode = "normal"
                 THEN [s1.p EXCEPT !.flash_charges = s1.p.flash_charges + 1]
                 ELSE s1.p
           next == atDoor /\ level_idx + 1 <= 3
       IN  /\ deaths' = s1.deaths
           /\ level_idx' = IF atDoor THEN level_idx + 1 ELSE level_idx
           /\ finished' = (finished \/ (atDoor /\ level_idx + 1 > 3))
           /\ player' = IF next THEN respawn(set_spawn(p1, LevelSpawn.x, LevelSpawn.y))
                        ELSE p1
           /\ traps' = IF next THEN BuildTraps(level_idx + 1) ELSE traps
           /\ doors' = IF next THEN BuildDoors(level_idx + 1) ELSE s1.ds
           /\ projectiles' = IF next THEN << >> ELSE s1.qs
           /\ level_time' = IF next THEN 0 ELSE level_time
    /\ pc' = "frame"
    /\ UNCHANGED <<frame, dt, keys, mode, prev_rect, died, hr, udp>>

\* main before the loop, lines 1322-1332, with the baseline b the baseline
\* screen returned, Level(idx) built, the player p and the level's traps ts
InitSession(b, idx, p, ts) ==
    /\ pc = "frame"
    /\ frame = 0
    /\ dt = 0
    /\ keys = NoKeys
    /\ mode = "normal"
    /\ player = p
    /\ prev_rect = PlayerRect(p)
    /\ level_idx = idx
    /\ traps = ts
    /\ projectiles = << >>
    /\ doors = BuildDoors(idx)
    /\ level_time = 0
    /\ died = FALSE
    /\ deaths = 0
    /\ finished = FALSE
    /\ hr = HeartRateController(b)
    /\ udp = NewReceiver

\* a session whose baseline is 80, one the baseline screen accepts and the
\* default of HeartRateController.__init__ (line 171)
InitWith(idx, p, ts) == InitSession(80, idx, p, ts)

\* a session whose player stands at (x, y) of level idx, the spawn point being
\* level.spawn; main itself starts at idx = 1 and (x, y) = level.spawn
InitAt(idx, x, y) ==
    InitWith(idx, set_spawn(NewPlayer(x, y), LevelSpawn.x, LevelSpawn.y),
             BuildTraps(idx))

(***************************************************************************)
(* Spec: level 1, the player on the start pad: at the level's spawn point  *)
(* and standing at the pad's right edge                                    *)
(***************************************************************************)
Init ==
    \E s \in {LevelSpawn, [x |-> 505, y |-> HEIGHT - 118]} :
        InitAt(1, s.x, s.y)

Next ==
    \/ \E d \in {50, 100}, k \in {NoKeys, KeyRight, KeyJump} :
          BeginFrame(d, k, "none", MaxFrames)
    \/ HrTick({0})
    \/ LevelUpdate
    \/ PlayerUpdate
    \/ ResolvePhysics
    \/ React

Spec == Init /\ [][Next]_vars

(***************************************************************************)
(* SpecFall: the start of level 2, entered through level 1's real door in  *)
(* normal mode (lines 1385-1396: one flash charge, set_spawn, respawn),    *)
(* with the respawn key and with stalled frames (clock.tick returns the    *)
(* wall-clock time of the frame)                                           *)
(***************************************************************************)
\* the longest run explored under SpecFall, in frames
FallFrames == 4

KeyRightFlash == Keys(FALSE, TRUE, FALSE, FALSE, TRUE)

InitFall ==
    InitWith(2, respawn([set_spawn(NewPlayer(LevelSpawn.x, LevelSpawn.y),
                                   LevelSpawn.x, LevelSpawn.y)
                           EXCEPT !.flash_charges = 1]),
             BuildTraps(2))

NextFall ==
    \/ \E d \in {100, 750}, k \in {NoKeys, KeyRight, KeyRightFlash},
          ev \in {"none", "respawn"} :
          BeginFrame(d, k, ev, FallFrames)
    \/ HrTick({0})
    \/ LevelUpdate
    \/ PlayerUpdate
    \/ ResolvePhysics
    \/ React

SpecFall == InitFall /\ [][NextFall]_vars

(***************************************************************************)
(* SpecHazard: level 2 with a Player constructed (its spawn point is where *)
(* it is constructed, line 870) standing with its right edge in the laser  *)
(* at x = 2480, or standing in the spawn_homing zone at x = 3000           *)
(***************************************************************************)
\* the longest run explored under SpecHazard, in frames
HazardFrames == 10

InitHazard ==
    \E s \in {[x |-> 2445, y |-> HEIGHT - 400], [x |-> 2961, y |-> HEIGHT - 340]} :
        InitWith(2, NewPlayer(s.x, s.y), BuildTraps(2))

NextHazard ==
    \/ \E d \in {100, 200}, ev \in {"none", "respawn"} :
          BeginFrame(d, NoKeys, ev, HazardFrames)
    \/ HrTick({0})
    \/ LevelUpdate
    \/ PlayerUpdate
    \/ ResolvePhysics
    \/ React

SpecHazard == InitHazard /\ [][NextHazard]_vars

(***************************************************************************)
(* SpecTraps: level 1 in a session whose player, with no key held, stands  *)
(* above the first collapsing floor, above the second collapsing floor, on *)
(* the platform under the first falling block, or on the platform inside   *)
(* the input_swap_zone.  The first collapsing floor starts with triggered  *)
(* set, the state line 1124 leaves it in.                                  *)
(***************************************************************************)
\* the longest run explored under SpecTraps, in frames
TrapFrames == 10

TrapStarts ==
    {[x |-> 800, y |-> HEIGHT - 240], [x |-> 3660, y |-> HEIGHT - 280],
     [x |-> 1555, y |-> HEIGHT - 300], [x |-> 3300, y |-> HEIGHT - 280]}

InitTraps ==
    \E s \in TrapStarts :
        InitWith(1, set_spawn(NewPlayer(s.x, s.y), LevelSpawn.x, LevelSpawn.y),
                 [BuildTraps(1) EXCEPT ![1].triggered = TRUE])

NextTraps ==
    \/ \E d \in {125, 300} : BeginFrame(d, NoKeys, "none", TrapFrames)
    \/ HrTick({0})
    \/ LevelUpdate
    \/ PlayerUpdate
    \/ ResolvePhysics
    \/ React

SpecTraps == InitTraps /\ [][NextTraps]_vars

(***************************************************************************)
(* SpecWalk: level 1 in a session whose player stands above the first      *)
(* collapsing floor or on the platform to its left, the floor triggered or *)
(* not                                                                     *)
(***************************************************************************)
\* the longest run explored under SpecWalk, in frames
WalkFrames == 5

WalkStarts == {[x |-> 800, y |-> HEIGHT - 240], [x |-> 700, y |-> HEIGHT - 210]}

InitWalk ==
    \E s \in WalkStarts, g \in BOOLEAN :
        InitWith(1, set_spawn(NewPlayer(s.x, s.y), LevelSpawn.x, LevelSpawn.y),
                 [BuildTraps(1) EXCEPT ![1].triggered = g])

NextWalk ==
    \/ \E d \in {50, 100}, k \in {NoKeys, KeyRight, KeyLeft} :
          BeginFrame(d, k, "none", WalkFrames)
    \/ HrTick({0})
    \/ LevelUpdate
    \/ PlayerUpdate
    \/ ResolvePhysics
    \/ React

SpecWalk == InitWalk /\ [][NextWalk]_vars

(***************************************************************************)
(* SpecHr: level 1 from its spawn point, for a baseline at either end of   *)
(* the range the baseline screen accepts (40..200, lines 1252-1256) or in  *)
(* the middle of it, with the heart-rate keys, the mode override keys and  *)
(* the random drift                                                        *)
(***************************************************************************)
\* the longest run explored under SpecHr, in frames
HrFrames == 4

Baselines == {40, 80, 200}

KeyHrUp == [KeyRight EXCEPT !.hr_up = TRUE]
KeyHrDown == [NoKeys EXCEPT !.hr_down = TRUE]

\* what one frame of the session supplies: dt, the keys held and the event
HrInputs ==
    {<<250, NoKeys, "none">>, <<250, KeyHrUp, "none">>, <<250, KeyHrDown, "none">>,
     <<700, NoKeys, "none">>, <<250, NoKeys, "stress">>, <<250, NoKeys, "panic">>,
     <<250, KeyHrUp, "auto">>}

\* the offsets explored of those random may draw
HrDraws == {-6, 10, 20, 30}

InitHr ==
    \E b \in Baselines :
        InitSession(b, 1, set_spawn(NewPlayer(LevelSpawn.x, LevelSpawn.y),
                                    LevelSpawn.x, LevelSpawn.y), BuildTraps(1))

NextHr ==
    \/ \E i \in HrInputs : BeginFrame(i[1], i[2], i[3], HrFrames)
    \/ HrTick(HrDraws)
    \/ LevelUpdate
    \/ PlayerUpdate
    \/ ResolvePhysics
    \/ React

SpecHr == InitHr /\ [][NextHr]_vars

(***************************************************************************)
(* SpecUdp: the receiver of src/bpm_udp.py, started when a datagram has    *)
(* just arrived, having reported nothing yet or having reported 85; later  *)
(* datagrams are the three of MoreDatagrams.  main of src/main.py does not *)
(* run.                                                                    *)
(***************************************************************************)
\* the longest first datagram explored under SpecUdp, in characters
MsgLen == 3

\* the sequences over Chars of length n or less
SeqsUpTo(n) == UNION {[1..k -> Chars] : k \in 0..n}

\* the first datagram: any short message, or a JSON object with a short
\* value for "bpm"
Datagrams ==
    SeqsUpTo(MsgLen)
    \cup {<<"{", "\"bpm\"", ":">> \o b \o <<"}">> : b \in SeqsUpTo(MsgLen - 1)}

MoreDatagrams == {<<"8", "8">>, <<"x">>, <<"x", ":", "sup2">>}

InitUdp ==
    /\ \E m \in Datagrams, l \in {None, IntOf(85)} :
          udp = [msg |-> m, last |-> l, raised |-> FALSE, pcu |-> "parse"]
    /\ pc = "frame"
    /\ frame = 0
    /\ dt = 0
    /\ keys = NoKeys
    /\ mode = "normal"
    /\ player = NewPlayer(LevelSpawn.x, LevelSpawn.y)
    /\ prev_rect = PlayerRect(player)
    /\ level_idx = 1
    /\ traps = BuildTraps(1)
    /\ projectiles = << >>
    /\ doors = BuildDoors(1)
    /\ level_time = 0
    /\ died = FALSE
    /\ deaths = 0
    /\ finished = FALSE
    /\ hr = HeartRateController(80)

NextUdp ==
    \/ \E m \in MoreDatagrams : Arrive(m)
    \/ Handle

SpecUdp == InitUdp /\ [][NextUdp]_vars

(***************************************************************************)
(* SpecLive: the game on level 1 with baseline 80, and next to it the      *)
(* receiver of src/bpm_udp.py, the producer of the live bpm value, which   *)
(* has just been sent "85" or a payload it drops                           *)
(***************************************************************************)
\* the longest run explored under SpecLive, in frames
LiveFrames == 2

InitLive ==
    /\ \E m \in {<<"8", "5">>, <<"x">>} :
          udp = [NewReceiver EXCEPT !.msg = m, !.pcu = "parse"]
    /\ pc = "frame"
    /\ frame = 0
    /\ dt = 0
    /\ keys = NoKeys
    /\ mode = "normal"
    /\ player = NewPlayer(LevelSpawn.x, LevelSpawn.y)
    /\ prev_rect = PlayerRect(player)
    /\ level_idx = 1
    /\ traps = BuildTraps(1)
    /\ projectiles = << >>
    /\ doors = BuildDoors(1)
    /\ level_time = 0
    /\ died = FALSE
    /\ deaths = 0
    /\ finished = FALSE
    /\ hr = HeartRateController(80)

NextLive ==
    \/ \E d \in {250, 700} : BeginFrame(d, NoKeys, "none", LiveFrames)
    \/ HrTick(HrDraws)
    \/ LevelUpdate
    \/ PlayerUpdate
    \/ ResolvePhysics
    \/ React
    \/ \E m \in MoreDatagrams : Arrive(m)
    \/ Handle

SpecLive == InitLive /\ [][NextLive]_vars

(***************************************************************************)
(* SpecBox: level 1 in a session whose player stands near the right edge   *)
(* of the start pad, below and left of the first platform, or falls past   *)
(* the shifting wall; with the respawn key                                 *)
(***************************************************************************)
\* the longest run explored under SpecBox, in frames
BoxFrames == 4

BoxStarts == {[x |-> 490, y |-> HEIGHT - 118], [x |-> WorldW - 1390, y |-> 480]}

InitBox ==
    \E s \in BoxStarts : InitAt(1, s.x, s.y)

NextBox ==
    \/ \E k \in {NoKeys, KeyRight, KeyJump, KeyRightJump}, ev \in {"none", "respawn"} :
          BeginFrame(125, k, ev, BoxFrames)
    \/ HrTick({0})
    \/ LevelUpdate
    \/ PlayerUpdate
    \/ ResolvePhysics
    \/ React

SpecBox == InitBox /\ [][NextBox]_vars

(***************************************************************************)
(* SpecHoming: level 2 in a session whose player, with no key held, stands *)
(* on the platform at the right edge of the spawn_homing zone, 530 px from *)
(* where the zone's projectiles start                                      *)
(***************************************************************************)
\* the longest run explored under SpecHoming, in frames
HomingFrames == 8

InitHoming == InitAt(2, 3490, HEIGHT - 460)

NextHoming ==
    \/ \E d \in {100, 250} : BeginFrame(d, NoKeys, "none", HomingFrames)
    \/ HrTick({0})
    \/ LevelUpdate
    \/ PlayerUpdate
    \/ ResolvePhysics
    \/ React

SpecHoming == InitHoming /\ [][NextHoming]_vars

(***************************************************************************)
(* SpecZone: sessions whose player is constructed, with no key held, where *)
(* a zone and another trap meet: in level 2 at the right edge of the       *)
(* input_swap_zone, 20 px left of a laser, and above the collapsing floor; *)
(* in level 3 at the right edge of the gravity_flip_zone, 20 px left of a  *)
(* laser; in level 1 inside the range of the shifting wall and on the      *)
(* platform inside the trigger_hidden_spikes zone; in level 2 inside the   *)
(* trigger_rising_pit zone and on the platform at the left edge of the     *)
(* spawn_homing zone, where its projectiles start.  A respawn puts the     *)
(* player back there with i-frames.                                        *)
(***************************************************************************)
\* the longest run explored under SpecZone, in frames
ZoneFrames == 5

ZoneStarts ==
    {[idx |-> 2, x |-> 4545, y |-> HEIGHT - 300],
     [idx |-> 2, x |-> 2000, y |-> HEIGHT - 300],
     [idx |-> 3, x |-> 2205, y |-> HEIGHT - 400],
     [idx |-> 1, x |-> WorldW - 1390, y |-> HEIGHT - 240],
     [idx |-> 1, x |-> 1000, y |-> HEIGHT - 290],
     [idx |-> 2, x |-> 1500, y |-> HEIGHT - 260],
     [idx |-> 2, x |-> 2990, y |-> HEIGHT - 340]}

InitZone ==
    \E s \in ZoneStarts : InitWith(s.idx, NewPlayer(s.x, s.y), BuildTraps(s.idx))

NextZone ==
    \/ \E d \in {100, 250}, ev \in {"none", "respawn"} :
          BeginFrame(d, NoKeys, ev, ZoneFrames)
    \/ HrTick({0})
    \/ LevelUpdate
    \/ PlayerUpdate
    \/ ResolvePhysics
    \/ React

SpecZone == InitZone /\ [][NextZone]_vars

(***************************************************************************)
(* SpecSpikes: level 1 in a session whose player stands on the platform     *)
(* inside the trigger_hidden_spikes zone, 140 px left of the hidden spikes, *)
(* and stays or walks right                                                 *)
(***************************************************************************)
\* the longest run explored under SpecSpikes, in frames
SpikesFrames == 9

InitSpikes == InitAt(1, 1000, HEIGHT - 290)

NextSpikes ==
    \/ \E i \in {<<250, NoKeys>>, <<250, KeyRight>>, <<500, NoKeys>>} :
          BeginFrame(i[1], i[2], "none", SpikesFrames)
    \/ HrTick({0})
    \/ LevelUpdate
    \/ PlayerUpdate
    \/ ResolvePhysics
    \/ React

SpecSpikes == InitSpikes /\ [][NextSpikes]_vars

(***************************************************************************)
(* SpecPit: level 2 in a session whose player is in the air above the       *)
(* trigger_rising_pit zone, 100 px left of the bait platform over the pit,  *)
(* or under that platform's left edge, above the pit at rest, and falls or  *)
(* moves right                                                              *)
(***************************************************************************)
\* the longest run explored under SpecPit, in frames
PitFrames == 9

PitStarts == {[x |-> 1500, y |-> HEIGHT - 340], [x |-> 1585, y |-> HEIGHT - 190]}

InitPit == \E s \in PitStarts : InitAt(2, s.x, s.y)

NextPit ==
    \/ \E i \in {<<100, NoKeys>>, <<100, KeyRight>>, <<300, NoKeys>>} :
          BeginFrame(i[1], i[2], "none", PitFrames)
    \/ HrTick({0})
    \/ LevelUpdate
    \/ PlayerUpdate
    \/ ResolvePhysics
    \/ React

SpecPit == InitPit /\ [][NextPit]_vars

(***************************************************************************)
(* SpecFlip: level 1 in a session whose player is in the air inside the     *)
(* gravity_flip_zone, under the platform that crosses the zone, and stays   *)
(* or moves right                                                           *)
(***************************************************************************)
\* the longest run explored under SpecFlip, in frames
FlipFrames == 10

InitFlip == InitAt(1, 4500, HEIGHT - 230)

NextFlip ==
    \/ \E i \in {<<100, NoKeys>>, <<100, KeyRight>>, <<500, NoKeys>>} :
          BeginFrame(i[1], i[2], "none", FlipFrames)
    \/ HrTick({0})
    \/ LevelUpdate
    \/ PlayerUpdate
    \/ ResolvePhysics
    \/ React

SpecFlip == InitFlip /\ [][NextFlip]_vars

(***************************************************************************)
(* SpecDelayed: Level.build puts no delayed_spikes and no                   *)
(* arm_delayed_spikes trap into any of its three levels; only the Trap      *)
(* class, Level.draw and resolve_physics know the two kinds.  Here level 1  *)
(* has one trap of each kind on its start pad, made as T(rect, kind) makes  *)
(* every trap that is given no keyword: with the defaults of the dataclass. *)
(* The player starts at the level's spawn point, 180 px left of the spikes, *)
(* the zone being 40 px behind them.                                        *)
(***************************************************************************)
\* the longest run explored under SpecDelayed, in frames
DelayedFrames == 8

\* T(pygame.Rect(..), "delayed_spikes"), T(pygame.Rect(..), "arm_delayed_spikes")
DelayedTraps ==
    << Trap(Rect(260, HEIGHT - 110, 80, 32), "delayed_spikes", "True"),
       Trap(Rect(380, HEIGHT - 240, 80, 162), "arm_delayed_spikes", "True") >>

InitDelayed ==
    InitWith(1, set_spawn(NewPlayer(LevelSpawn.x, LevelSpawn.y),
                          LevelSpawn.x, LevelSpawn.y),
             BuildTraps(1) \o DelayedTraps)

NextDelayed ==
    \/ \E k \in {NoKeys, KeyRight, KeyRightJump} :
          BeginFrame(125, k, "none", DelayedFrames)
    \/ HrTick({0})
    \/ LevelUpdate
    \/ PlayerUpdate
    \/ ResolvePhysics
    \/ React

SpecDelayed == InitDelayed /\ [][NextDelayed]_vars

(***************************************************************************)
(* SpecExpiry: level 2 in a session whose player, with no key held, stands  *)
(* on a platform at the right or at the left edge of the spawn_homing zone, *)
(* 530 px from where the zone's projectiles start or next to it; the frames *)
(* are short or have stalled for 2 s or more, so that a projectile          *)
(* overshoots the player and lives until its ttl runs out                   *)
(***************************************************************************)
\* the longest run explored under SpecExpiry, in frames
ExpiryFrames == 4

ExpiryStarts == {[x |-> 3490, y |-> HEIGHT - 460], [x |-> 2990, y |-> HEIGHT - 340]}

InitExpiry == \E s \in ExpiryStarts : InitAt(2, s.x, s.y)

NextExpiry ==
    \/ \E d \in {250, 2000, 2750} : BeginFrame(d, NoKeys, "none", ExpiryFrames)
    \/ HrTick({0})
    \/ LevelUpdate
    \/ PlayerUpdate
    \/ ResolvePhysics
    \/ React

SpecExpiry == InitExpiry /\ [][NextExpiry]_vars

(***************************************************************************)
(* SpecDrop: level 2 in a session whose player starts in the air above the  *)
(* platform at (1980, HEIGHT - 470) and the collapsing floor 220 px below   *)
(* it, or between the two; the frames are short or have stalled for up to   *)
(* 1 s, so that one Y move can cross both platforms                         *)
(***************************************************************************)
\* the longest run explored under SpecDrop, in frames
DropFrames == 5

DropStarts == {[x |-> 2000, y |-> 100], [x |-> 1990, y |-> 300], [x |-> 2150, y |-> 60]}

InitDrop == \E s \in DropStarts : InitAt(2, s.x, s.y)

NextDrop ==
    \/ \E i \in {<<50, NoKeys>>, <<400, KeyRight>>, <<1000, NoKeys>>, <<1000, KeyLeft>>} :
          BeginFrame(i[1], i[2], "none", DropFrames)
    \/ HrTick({0})
    \/ LevelUpdate
    \/ PlayerUpdate
    \/ ResolvePhysics
    \/ React

SpecDrop == InitDrop /\ [][NextDrop]_vars

(***************************************************************************)
(* SpecBlock: a session whose player, with no key held, stands on the       *)
(* platform under the first falling block of level 1 with its centre on the *)
(* block's left edge, inside its span, or on its right edge, or starts in   *)
(* the air below the platform that carries the falling block of level 2,    *)
(* 60 px or 290 px under the block, or on that platform, touching the block *)
(***************************************************************************)
\* the longest run explored under SpecBlock, in frames
BlockFrames == 8

BlockStarts ==
    {[idx |-> 1, x |-> 1520, y |-> HEIGHT - 300], [idx |-> 1, x |-> 1555, y |-> HEIGHT - 300],
     [idx |-> 1, x |-> 1590, y |-> HEIGHT - 300], [idx |-> 2, x |-> 2675, y |-> 300],
     [idx |-> 2, x |-> 2675, y |-> 530], [idx |-> 2, x |-> 2630, y |-> 200]}

InitBlock == \E s \in BlockStarts : InitAt(s.idx, s.x, s.y)

NextBlock ==
    \/ \E d \in {125, 300} : BeginFrame(d, NoKeys, "none", BlockFrames)
    \/ HrTick({0})
    \/ LevelUpdate
    \/ PlayerUpdate
    \/ ResolvePhysics
    \/ React

SpecBlock == InitBlock /\ [][NextBlock]_vars

(***************************************************************************)
(* SpecDoor: level 1 with a Player constructed (its spawn point is where it *)
(* is constructed, line 870) in the air under the end platforms: left of    *)
(* the fake door, inside the fake door, or between the fake door and the    *)
(* real door                                                               *)
(***************************************************************************)
\* the longest run explored under SpecDoor, in frames
DoorFrames == 8

DoorStarts ==
    {[x |-> WorldW - 300, y |-> HEIGHT - 180], [x |-> WorldW - 220, y |-> HEIGHT - 160],
     [x |-> WorldW - 160, y |-> HEIGHT - 160]}

InitDoor == \E s \in DoorStarts : InitWith(1, NewPlayer(s.x, s.y), BuildTraps(1))

NextDoor ==
    \/ \E i \in {<<100, NoKeys>>, <<100, KeyRight>>, <<250, NoKeys>>} :
          BeginFrame(i[1], i[2], "none", DoorFrames)
    \/ HrTick({0})
    \/ LevelUpdate
    \/ PlayerUpdate
    \/ ResolvePhysics
    \/ React

SpecDoor == InitDoor /\ [][NextDoor]_vars

(***************************************************************************)
(* SpecEdge: level 1 in a session whose player stands on the start pad     *)
(* 30 px from the world's left edge, on the last platform 50 px from the    *)
(* world's right edge, or in the air inside the shifting wall's range       *)
(***************************************************************************)
\* the longest run explored under SpecEdge, in frames
EdgeFrames == 5

EdgeStarts ==
    {[x |-> 30, y |-> HEIGHT - 118], [x |-> WorldW - 90, y |-> HEIGHT - 250],
     [x |-> WorldW - 1390, y |-> 480]}

InitEdge == \E s \in EdgeStarts : InitAt(1, s.x, s.y)

NextEdge ==
    \/ \E i \in {<<100, KeyLeft>>, <<100, KeyRight>>, <<250, NoKeys>>, <<250, KeyRight>>} :
          BeginFrame(i[1], i[2], "none", EdgeFrames)
    \/ HrTick({0})
    \/ LevelUpdate
    \/ PlayerUpdate
    \/ ResolvePhysics
    \/ React

SpecEdge == InitEdge /\ [][NextEdge]_vars

(***************************************************************************)
(* SpecJump: level 1 in a session whose player stands on the start pad at   *)
(* its right edge; jump is held or not, on short frames and on frames that  *)
(* have stalled for 0.4 s (long enough for a jump to be back on the ground  *)
(* within the frame that started it)                                        *)
(***************************************************************************)
\* the longest run explored under SpecJump, in frames
JumpFrames == 6

InitJump == InitAt(1, 490, HEIGHT - 118)

NextJump ==
    \/ \E i \in {<<50, NoKeys>>, <<50, KeyRight>>, <<50, KeyJump>>, <<400, KeyJump>>} :
          BeginFrame(i[1], i[2], "none", JumpFrames)
    \/ HrTick({0})
    \/ LevelUpdate
    \/ PlayerUpdate
    \/ ResolvePhysics
    \/ React

SpecJump == InitJump /\ [][NextJump]_vars

(***************************************************************************)
(* SpecCycle: level 2 in a session whose player, with no key held, starts   *)
(* in the air above the trigger_rising_pit zone or 60 px under the falling  *)
(* block, and falls; frames of 0.25 s and 0.5 s keep coming until           *)
(* CycleFrames of them have run (main's "while True" loop, lines 1334-1399, *)
(* has no other exit than the program's)                                    *)
(***************************************************************************)
\* the longest run explored under SpecCycle, in frames
CycleFrames == 12

CycleStarts == {[x |-> 1500, y |-> HEIGHT - 340], [x |-> 2675, y |-> 300]}

InitCycle == \E s \in CycleStarts : InitAt(2, s.x, s.y)

NextCycle ==
    \/ \E d \in {250, 500} : BeginFrame(d, NoKeys, "none", CycleFrames)
    \/ HrTick({0})
    \/ LevelUpdate
    \/ PlayerUpdate
    \/ ResolvePhysics
    \/ React

SpecCycle == InitCycle /\ [][NextCycle]_vars /\ WF_vars(NextCycle)

(***************************************************************************)
(* Claims                                                                  *)
(***************************************************************************)
\* a platform rectangle that is not the rectangle of an inactive
\* collapsing_floor
Solid(rect) ==
    \A i \in 1..Len(traps) :
        (traps[i].kind = "collapsing_floor" /\ traps[i].rect = rect)
            => Truthy(traps[i].active)

XOverlap(a, b) == Right(a) > Left(b) /\ Left(a) < Right(b)

\* jump_buf and coyote as Player.update has them when it tests for the jump
JumpBufAtTest ==
    IF (IF player.swap_jump /\ player.swap_jump_timer - dt > 0
        THEN keys.down ELSE keys.jump)
    THEN 100 ELSE Max(0, player.jump_buf - dt)

CoyoteAtTest == IF player.on_ground THEN 100 ELSE Max(0, player.coyote - dt)

\* gravity's contribution to vy in one Player.update, for a player whose
\* gravity is not flipped after the timer updates
GravityStep == (GRAVITY * VelScale * dt) \div 1000

FlippedAtTest == player.gravity_flipped /\ player.gravity_flip_timer - dt > 0

JumpVel ==
    LET v == IF mode = "stress" THEN (BASE_JUMP_VEL * VelScale * STRESS_JUMP_MULT) \div MultDen
             ELSE BASE_JUMP_VEL * VelScale
    IN  IF FlippedAtTest THEN -v - GravityStep ELSE v + GravityStep

\* C7: Player.update executes a jump (vy set to the jump velocity, jump_buf and
\* coyote zeroed, on_ground cleared) exactly when jump_buf > 0 and coyote > 0
\* after this tick's timer updates; with the jump key down while airborne and
\* coyote already 0, vy changes by gravity alone.
C7_JumpIffBufferAndCoyote ==
    [][pc = "player" =>
        /\ (JumpBufAtTest > 0 /\ CoyoteAtTest > 0)
              <=> (/\ player'.vy = clamp(JumpVel, -1600 * VelScale, 1600 * VelScale)
                   /\ player'.jump_buf = 0
                   /\ player'.coyote = 0
                   /\ ~player'.on_ground)
        /\ (keys.jump /\ ~player.on_ground /\ player.coyote = 0 /\ ~FlippedAtTest)
              => player'.vy = clamp(player.vy + GravityStep,
                                    -1600 * VelScale, 1600 * VelScale)]_vars

\* C7 witness: a jump was executed by a Player.update that saw no jump key
\* (the buffered press of the frame before, honoured after landing)
C7_Witness ==
    /\ pc = "physics"
    /\ ~keys.jump
    /\ player.vy = BASE_JUMP_VEL * VelScale + GravityStep
    /\ player.jump_buf = 0 /\ player.coyote = 0 /\ ~player.on_ground

\* C8 as claimed: for a non-flipped player resting on a platform with no
\* movement or jump input, vy is exactly 0 after Player.update.
C8_Original ==
    [][(pc = "player" /\ player.on_ground /\ ~player.gravity_flipped /\ keys = NoKeys)
          => player'.vy = 0]_vars

\* C8 amended: for a non-flipped player resting on a platform with no movement
\* or jump input and no buffered jump (jump_buf = 0), vy is exactly 0 after
\* Player.update and after resolve_physics, and pos.y and rect.y do not change.
C8_GroundedStaysPut ==
    [][/\ (pc = "player" /\ player.on_ground /\ ~player.gravity_flipped
              /\ keys = NoKeys /\ player.jump_buf = 0)
          => (/\ player'.vy = 0
              /\ player'.on_ground
              /\ player'.pos_y = player.pos_y
              /\ player'.rect_y = player.rect_y)
       /\ (pc = "physics" /\ player.on_ground /\ ~player.gravity_flipped
              /\ keys = NoKeys)
          => (/\ player'.vy = 0
              /\ player'.pos_y = player.pos_y
              /\ player'.rect_y = player.rect_y)]_vars

\* C8 witness: resolve_physics has just run for a player that rested on the
\* pad through a frame without input
C8_Witness ==
    /\ pc = "react"
    /\ keys = NoKeys
    /\ player.on_ground
    /\ player.vy = 0
    /\ Bottom(prev_rect) = Top(StartPad)
    /\ Bottom(PlayerRect(player)) = Top(StartPad)

\* the player's rect rests on the top of a colliding platform it did not start
\* the Y pass below, with no vertical velocity left
Supported ==
    \E i \in 1..Len(Platforms(level_idx)) :
        LET plat == Platforms(level_idx)[i]
        IN  /\ Solid(plat)
            /\ XOverlap(PlayerRect(player), plat)
            /\ Bottom(PlayerRect(player)) = Top(plat)
            /\ Bottom(prev_rect) <= Top(plat)
            /\ player.vy = 0

\* C9: after every resolve_physics call of a non-flipped player, on_ground is
\* True exactly when the player landed on or rests on a surface: True after a
\* landing, True on every later tick it rests there, False after the call of
\* the tick in which a jump or gravity took it off the surface.
C9_OnGroundIffSupported ==
    (pc = "react" /\ ~player.gravity_flipped) => (player.on_ground <=> Supported)

\* C9 witness: a landing tick (the Y pass moved the player down onto the pad)
C9_Witness ==
    /\ pc = "react"
    /\ player.on_ground
    /\ Bottom(prev_rect) < Bottom(PlayerRect(player))
    /\ Bottom(PlayerRect(player)) = Top(StartPad)

\* C10: when a non-flipped player's rect.top is greater than HEIGHT + 220
\* after the Y pass, the same resolve_physics call returns True.
C10_FallReturnsDead ==
    (pc = "react" /\ ~player.gravity_flipped
        /\ Top(PlayerRect(player)) > HEIGHT + 220) => died

\* the conditions under which the hazard pass sets died for trap t and the
\* player rect pr
Lethal(t, pr) ==
    /\ colliderect(pr, t.rect)
    /\ \/ t.kind = "spikes"
       \/ (t.kind \in {"laser", "hidden_spikes", "delayed_spikes", "falling_block",
                       "rising_pit"} /\ Truthy(t.active))

\* the rect pr overlaps a lethal trap of ts or a projectile of qs
LethalOverlap(ts, qs, pr) ==
    \/ \E i \in 1..Len(ts) : Lethal(ts[i], pr)
    \/ \E j \in 1..Len(qs) : colliderect(pr, ProjectileRect(qs[j]))

\* C1: respawn sets i_frames to 0.8 s and each Player.update takes dt off it
\* while it is positive; resolve_physics returns False on every tick on which
\* i_frames is still positive, even when the player overlaps a lethal trap or
\* a projectile, and on a tick where i_frames <= 0 such an overlap makes it
\* return True.
C1_IFramesSuppressHazards ==
    [][/\ (pc = "react" /\ died) => player'.i_frames = RESPAWN_I_FRAMES
       /\ pc = "player" =>
            player'.i_frames = IF player.i_frames > 0 THEN player.i_frames - dt
                               ELSE player.i_frames
       /\ (pc = "physics" /\ player.i_frames > 0) => ~died'
       /\ (pc = "physics" /\ player.i_frames <= 0
              /\ LethalOverlap(traps, projectiles, PlayerRect(player')))
            => died']_vars

\* C1 witness: after a respawn, the first tick on which i_frames <= 0, the
\* player overlapping a lethal trap or projectile, and the call returned True
C1_Witness ==
    /\ pc = "react"
    /\ deaths >= 1
    /\ player.i_frames <= 0
    /\ player.i_frames > -dt
    /\ LethalOverlap(traps, projectiles, PlayerRect(player))
    /\ died

\* C2: a grounded player without i-frames that stands on an active
\* collapsing_floor (it rested there before the call and rests there after
\* it) has that floor's triggered flag True after the resolve_physics call.
C2_StandingTriggersFloor ==
    \A i \in 1..Len(traps) :
        (/\ pc = "react"
         /\ traps[i].kind = "collapsing_floor"
         /\ Truthy(traps[i].active)
         /\ player.on_ground
         /\ player.i_frames <= 0
         /\ XOverlap(PlayerRect(player), traps[i].rect)
         /\ Bottom(prev_rect) = Top(traps[i].rect)
         /\ Bottom(PlayerRect(player)) = Top(traps[i].rect))
            => traps[i].triggered

\* C3: a collapsing_floor found triggered by a Level.update is inactive after
\* that update and after every later one as long as the dt since it was
\* triggered sum to less than 2.1 s; after the update at which the sum reaches
\* 2.1 s it has active = True and triggered = False.  A floor that was not
\* triggered stays active.
C3_FloorCooldown ==
    \A i \in 1..Len(traps) :
        (traps[i].kind = "collapsing_floor" /\ pc = "player") =>
            IF traps[i].rect = Cf1A
            THEN /\ level_time < 2100 => (traps[i].active = "False" /\ traps[i].triggered)
                 /\ (level_time >= 2100 /\ level_time - dt < 2100)
                       => (traps[i].active = "True" /\ ~traps[i].triggered)
            ELSE traps[i].active = "True"

\* C3 witness: the update at which the dt since the trigger reach 2.1 s has
\* run and the floor is back
C3_Witness ==
    /\ pc = "player"
    /\ level_time >= 2100
    /\ level_time - dt < 2100
    /\ traps[1].kind = "collapsing_floor"
    /\ traps[1].active = "True"
    /\ ~traps[1].triggered

\* the platforms of the level that are not the rect of an inactive
\* collapsing_floor
SolidPlatforms == SelectSeq(Platforms(level_idx), Solid)

\* C4: the X pass and the Y pass of resolve_physics skip a platform exactly
\* when it is the rect of a collapsing_floor whose active is False: the two
\* passes leave the player where passes over the other platforms alone, all
\* of them colliding, leave it, and the player never ends below the top of a
\* colliding platform it started the Y pass above.
C4_InactiveFloorSkipped ==
    [][pc = "physics" =>
        LET r == AfterPasses(player, SolidPlatforms, << >>, dt)
        IN  /\ player'.pos_x = r.pos_x /\ player'.rect_x = r.rect_x
            /\ player'.pos_y = r.pos_y /\ player'.rect_y = r.rect_y
            /\ player'.vx = r.vx /\ player'.vy = r.vy
            /\ player'.on_ground = r.on_ground
            /\ \A j \in 1..Len(SolidPlatforms) :
                  (/\ XOverlap(PlayerRect(player'), SolidPlatforms[j])
                   /\ Bottom(prev_rect') <= Top(SolidPlatforms[j]))
                     => Bottom(PlayerRect(player')) <= Top(SolidPlatforms[j])]_vars

\* C4 witness: after resolve_physics the player's rect is inside the rect of
\* an inactive collapsing_floor
C4_Witness ==
    /\ pc = "react"
    /\ \E i \in 1..Len(traps) :
          /\ traps[i].kind = "collapsing_floor"
          /\ traps[i].active = "False"
          /\ colliderect(PlayerRect(player), traps[i].rect)

\* C5: a triggered, active falling_block that stays above HEIGHT + 250 moves
\* down by 820 * dt px in a Level.update (rect.y in 1/1000 px, dt in ms).
C5_BlockFallsAtRate ==
    [][pc = "level" =>
        \A i \in 1..Len(traps) :
            (/\ traps[i].kind = "falling_block"
             /\ traps[i].triggered
             /\ Truthy(traps[i].active)
             /\ traps[i].rect.y * 1000 + 820 * dt <= (HEIGHT + 250) * 1000)
               => traps'[i].rect.y * 1000 = traps[i].rect.y * 1000 + 820 * dt]_vars

\* C6: every laser's clock t is the sum of the dt since the level was built,
\* and the laser is active exactly when t mod 1.88 s < 1.10 s.
C6_LaserDutyCycle ==
    \A i \in 1..Len(traps) :
        traps[i].kind = "laser" =>
            /\ traps[i].t = level_time
            /\ (traps[i].active = "True") <=> (traps[i].t % 1880 < 1100)
            /\ traps[i].active \in {"True", "False"}

\* C6 witness: a laser in its second active phase, after a Level.update
C6_Witness ==
    /\ pc = "player"
    /\ level_time >= 1880
    /\ \E i \in 1..Len(traps) : traps[i].kind = "laser" /\ traps[i].active = "True"

\* the player's rect overlaps the rect of an input_swap_zone
InSwapZone(p) ==
    \E i \in 1..Len(traps) :
        traps[i].kind = "input_swap_zone" /\ colliderect(PlayerRect(p), traps[i].rect)

\* C11: when resolve_physics runs with no i-frames and leaves the player
\* overlapping an input_swap_zone, swap_lr and swap_jump are armed
\* independently: a flag that was false is true with a timer of 3.0 s, a
\* flag that was already true keeps its timer.
C11_SwapArmedIndependently ==
    [][(pc = "physics" /\ player.i_frames <= 0 /\ InSwapZone(player'))
        => /\ player'.swap_lr /\ player'.swap_jump
           /\ player'.swap_lr_timer =
                 (IF player.swap_lr THEN player.swap_lr_timer ELSE 3000)
           /\ player'.swap_jump_timer =
                 (IF player.swap_jump THEN player.swap_jump_timer ELSE 3000)]_vars

\* the zone has just armed both flags of a player that had neither
C11_Witness ==
    /\ pc = "react" /\ InSwapZone(player) /\ ~died
    /\ player.swap_lr /\ player.swap_lr_timer = 3000
    /\ player.swap_jump /\ player.swap_jump_timer = 3000

\* C12: in every frame of an unfinished game HeartRateController.update,
\* Level.update, Player.update and resolve_physics run once each, in that
\* order and with the frame's dt, and Player.update is given the mode that
\* hr.mode() reports after this frame's HeartRateController.update.
C12_FrameOrder ==
    [][/\ (pc = "frame" /\ pc' # "frame") => (pc' = "hr" /\ frame' = frame + 1)
       /\ (pc = "hr" /\ ~finished)
            => /\ pc' = "level" /\ dt' = dt /\ frame' = frame
               /\ \E u \in Offsets : hr' = hr_update(hr, dt, keys, u)
       /\ pc = "level"
            => /\ pc' = "player" /\ dt' = dt /\ frame' = frame
               /\ level_time' = level_time + dt /\ hr' = hr
       /\ pc = "player"
            => /\ pc' = "physics" /\ dt' = dt /\ frame' = frame
               /\ mode = hr_mode(hr)
               /\ player' = update(player, dt, keys, hr_mode(hr))
       /\ pc = "physics"
            => /\ pc' = "react" /\ dt' = dt /\ frame' = frame
               /\ \E r \in {resolve_physics(player, Platforms(level_idx), traps,
                                             projectiles, dt)} : player' = r.p
       /\ pc = "react" => pc' = "frame"]_vars

\* Player.update is about to run in stress mode, the mode being the one the
\* bpm reached in this frame's HeartRateController.update gives
C12_Witness ==
    /\ pc = "player" /\ ~finished
    /\ hr.mode_override = "None" /\ mode = "stress" /\ keys.right

\* the integer nearest to a value c >= 0 in 1/1000, the even one of two
\* equally near; it is one of the two integers around c
Nearest(c) ==
    LET around == {c \div 1000, c \div 1000 + 1}
    IN  CHOOSE n \in around :
            \A m \in around :
                LET dn == IF n * 1000 >= c THEN n * 1000 - c ELSE c - n * 1000
                    dm == IF m * 1000 >= c THEN m * 1000 - c ELSE c - m * 1000
                IN  dn < dm \/ (dn = dm /\ (n = m \/ n % 2 = 0))

\* the reference mode of a controller h
ModeReference(h) ==
    IF h.mode_override \in {"panic", "stress"} THEN h.mode_override
    ELSE IF Nearest(h.current) > h.baseline + 20 THEN "panic"
    ELSE IF Nearest(h.current) >= h.baseline + 10 THEN "stress"
    ELSE "normal"

\* C13: mode() is the reference function of (mode_override, current,
\* baseline): an override of "panic" or "stress" is returned as it is;
\* otherwise, with b the rounded current, "panic" if b > baseline + 20,
\* else "stress" if b >= baseline + 10, else "normal"; and it is the mode the
\* frame uses.
C13_ModeIsReference ==
    /\ hr_mode(hr) = ModeReference(hr)
    /\ pc = "level" => mode = ModeReference(hr)

\* no override, and the bpm is exactly at the panic threshold: "stress"
C13_Witness ==
    /\ pc = "level" /\ hr.mode_override = "None"
    /\ bpm(hr) = hr.baseline + 20 /\ mode = "stress"

\* C14: in every state of a HeartRateController constructed with a baseline
\* the baseline screen accepts (40..200), through any sequence of updates
\* with any keys held, 45 <= current <= 190.
C14_CurrentClamped ==
    /\ 45 * HrScale <= hr.current
    /\ hr.current <= 190 * HrScale

\* a number as a sender writes it: decimal digits with at most one "."
IsNumber(p) ==
    /\ \E i \in 1..Len(p) : IsDecimalChar(p[i])
    /\ \A i \in 1..Len(p) : p[i] = "." \/ IsDecimalChar(p[i])
    /\ Find(RemoveDot(p), ".") = 0

\* a JSON object with a numeric "bpm" field, over Chars
IsJsonBpm(m) ==
    /\ Len(m) >= 2 /\ Head(m) = "{" /\ m[Len(m)] = "}"
    /\ LET inner == strip(SubSeq(m, 2, Len(m) - 1))
       IN  /\ Len(inner) >= 2 /\ Head(inner) = "\"bpm\""
           /\ lstrip(Tail(inner)) # << >>
           /\ Head(lstrip(Tail(inner))) = ":"
           /\ IsJsonNumber(strip(Tail(lstrip(Tail(inner)))))

\* a payload in none of the three encodings
Malformed(msg) ==
    /\ ~IsNumber(strip(msg))
    /\ ~(Find(msg, ":") # 0
         /\ \E i \in 1..Len(split(strip(msg))) : IsNumber(strip(split(strip(msg))[i])))
    /\ ~IsJsonBpm(strip(msg))

\* C19: a malformed payload never raises and never changes state:
\* parse_bpm returns None for any message that is not a bare number, a
\* colon-separated message with a numeric token, or a JSON object with a
\* numeric bpm field, and the receiver loop skips it, leaving the last
\* reported value as it was.
C19_MalformedIsDropped ==
    [][(udp.pcu = "parse" /\ Malformed(udp.msg))
        => /\ parse_bpm(udp.msg) = None
           /\ ~udp'.raised
           /\ udp'.pcu = "recv"
           /\ udp'.last = udp.last]_vars

\* C15: HeartRateController.update has exactly one target source per tick:
\* when a live bpm value has been supplied from outside, the target is that
\* value, tracked at rate 8/s, and no drift target is drawn; when none has,
\* the target is the drift target, tracked at rate 2/s.
C15_OneTargetSource ==
    [][(pc = "hr" /\ pc' # "hr")
        => IF udp.last # None
           THEN /\ hr'.target = udp.last.v * HrScale
                /\ hr'.current =
                     clamp(hr.current + Trunc((hr'.target - hr.current)
                                                * Min(1000, 8 * dt), 1000),
                           45 * HrScale, 190 * HrScale)
           ELSE /\ \/ hr'.target = hr.target
                   \/ \E u \in Offsets : hr'.target = (hr.baseline + u) * HrScale
                /\ hr'.current =
                     clamp(hr.current + Trunc((hr'.target - hr.current)
                                                * Min(1000, 2 * dt), 1000),
                           45 * HrScale, 190 * HrScale)]_vars

\* C16: the player's bounding box is derived from its position: after
\* construction, after respawn and after every resolve_physics call (X
\* clipping, Y snapping and the shifting_wall push included)
\* rect.x = int(pos.x) and rect.y = int(pos.y).
C16_RectFromPos ==
    /\ player.rect_x = Trunc(player.pos_x, PosScale)
    /\ player.rect_y = Trunc(player.pos_y, PosScale)

\* resolve_physics has just stopped a rising player under a platform
C16_Witness ==
    /\ pc = "react" /\ player.vy = 0 /\ ~player.on_ground
    /\ \E i \in 1..Len(Platforms(level_idx)) :
          /\ player.rect_y = Bottom(Platforms(level_idx)[i])
          /\ XOverlap(PlayerRect(player), Platforms(level_idx)[i])

\* C17: at the end of every frame in which resolve_physics returned True
\* the player is at its spawn position with vx = vy = 0,
\* coyote = jump_buf = 0, gravity_flipped, swap_lr, swap_jump and
\* flash_active false with zero timers, and i_frames = 0.8 s; the level's
\* projectile list is empty and the death counter has increased.
C17_DeathResets ==
    [][(pc = "react" /\ died)
        => /\ pc' = "frame"
           /\ player'.pos_x = player'.spawn_x /\ player'.pos_y = player'.spawn_y
           /\ player'.rect_x * PosScale = player'.spawn_x
           /\ player'.rect_y * PosScale = player'.spawn_y
           /\ player'.vx = 0 /\ player'.vy = 0
           /\ player'.coyote = 0 /\ player'.jump_buf = 0
           /\ ~player'.gravity_flipped /\ player'.gravity_flip_timer = 0
           /\ ~player'.swap_lr /\ player'.swap_lr_timer = 0
           /\ ~player'.swap_jump /\ player'.swap_jump_timer = 0
           /\ ~player'.flash_active /\ player'.flash_timer = 0
           /\ player'.i_frames = 800
           /\ projectiles' = << >>
           /\ deaths' > deaths]_vars

\* the end of a frame in which resolve_physics returned True for the second
\* time
C17_Witness ==
    /\ pc = "frame" /\ died /\ deaths = 2
    /\ player.pos_x = player.spawn_x /\ player.pos_y = player.spawn_y
    /\ player.i_frames = 800 /\ projectiles = << >>

\* to_player of line 779 for projectile q, in 1/10 px
ToPlayer(q, prect) ==
    [x |-> Trunc(CenterX(prect) * PosScale - q.pos.x, PosScale \div 10),
     y |-> Trunc(CenterY(prect) * PosScale - q.pos.y, PosScale \div 10)]

Abs(n) == IF n < 0 THEN -n ELSE n

\* the squared length of a velocity, and its parts across and along an
\* offset o (each multiplied by the length of o)
Speed2(v) == v.x * v.x + v.y * v.y
Across(v, o) == v.x * o.y - v.y * o.x
Along(v, o) == v.x * o.x + v.y * o.y

\* C20: over any sequence of Level.update calls the speed of a homing
\* projectile never exceeds 310 px/s, and its velocity turns toward the
\* player's center: in every update that steers it, the part of the
\* velocity across the direction to the player's center does not grow, and
\* the part along that direction does not shrink while it is below
\* 300 px/s (rounding to 1/100 px/s allowed for).
C20_HomingSpeedAndDirection ==
    [][pc = "level"
        => /\ \A j \in 1..Len(projectiles') :
                 Speed2(projectiles'[j].vel) <= (310 * VelScale) * (310 * VelScale)
           /\ \A i \in 1..Len(projectiles) :
                 LET q == projectiles[i]
                     o == ToPlayer(q, PlayerRect(player))
                     n == UpdateProjectile(q, dt, PlayerRect(player))
                     slack == 2 * (Abs(o.x) + Abs(o.y))
                 IN  (q.homing /\ q.ttl - dt > 0 /\ o.x * o.x + o.y * o.y > 1)
                     => /\ n.active => \E j \in 1..Len(projectiles') :
                                           projectiles'[j] = n
                        /\ Abs(Across(n.vel, o)) <= Abs(Across(q.vel, o)) + slack
                        /\ \/ Along(n.vel, o) >= Along(q.vel, o)
                           \/ Along(n.vel, o)
                                >= 300 * VelScale * ISqrt(o.x * o.x + o.y * o.y)]_vars

\* a projectile that has flown for a second or more, faster than 300 px/s
\* and within two degrees of the direction to the player's center
C20_Witness ==
    /\ pc = "player"
    /\ \E j \in 1..Len(projectiles) :
          LET q == projectiles[j]
              o == ToPlayer(q, PlayerRect(player))
          IN  /\ q.homing /\ q.ttl <= 4500
              /\ Speed2(q.vel) > (300 * VelScale) * (300 * VelScale)
              /\ Along(q.vel, o) > 0
              /\ 32 * Abs(Across(q.vel, o)) <= Along(q.vel, o)

\* the traps of one kind that a rectangle overlaps
Overlapped(ts, kind, pr) ==
    {i \in 1..Len(ts) : ts[i].kind = kind /\ colliderect(pr, ts[i].rect)}

\* the traps of a kind
OfKind(ts, kind) == {i \in 1..Len(ts) : ts[i].kind = kind}

\* the rectangle overlaps spikes or an active laser
TouchesLethal(ts, pr) ==
    \/ Overlapped(ts, "spikes", pr) # {}
    \/ \E i \in Overlapped(ts, "laser", pr) : Truthy(ts[i].active)

\* C21: a resolve_physics call made without i-frames has no early exit: a
\* player that ends the call overlapping spikes or an active laser has died,
\* and, dead or not, every zone it overlaps has had its effect: the hidden
\* spikes are armed for 2.0 s, no rising pit is left at rest, gravity is
\* flipped, and both swaps are on.
C21_DeathDoesNotStopTheLoop ==
    [][(pc = "physics" /\ ~Invulnerable(player)) =>
        LET pr == PlayerRect(player')
        IN  /\ TouchesLethal(traps', pr) => died'
            /\ Overlapped(traps', "trigger_hidden_spikes", pr) # {} =>
                  \A h \in OfKind(traps', "hidden_spikes") :
                      traps'[h].active = "True" /\ traps'[h].cooldown = 2000
            /\ Overlapped(traps', "trigger_rising_pit", pr) # {} =>
                  \A h \in OfKind(traps', "rising_pit") : traps'[h].active # "False"
            /\ Overlapped(traps', "gravity_flip_zone", pr) # {} =>
                  player'.gravity_flipped
            /\ Overlapped(traps', "input_swap_zone", pr) # {} =>
                  player'.swap_lr /\ player'.swap_jump]_vars

\* C21 witness: the call has just returned True for a player inside a laser
\* and inside a zone, and the zone's effect, which the player did not carry
\* into the call, is there
C21_Witness ==
    /\ pc = "react"
    /\ died
    /\ TouchesLethal(traps, PlayerRect(player))
    /\ \/ /\ Overlapped(traps, "input_swap_zone", PlayerRect(player)) # {}
          /\ player.swap_lr /\ player.swap_lr_timer = INPUT_SWAP_DURATION
       \/ /\ Overlapped(traps, "gravity_flip_zone", PlayerRect(player)) # {}
          /\ player.gravity_flipped /\ player.gravity_flip_timer = 2200

\* the player's zone flags and their timers
ZoneFlags(p) ==
    <<p.gravity_flipped, p.gravity_flip_timer, p.swap_lr, p.swap_lr_timer,
      p.swap_jump, p.swap_jump_timer>>

\* C22: a resolve_physics call made while player.i_frames > 0 returns False
\* and leaves every trap, every projectile and the player's gravity and swap
\* flags and timers as they were; a player at rest in X that overlaps a
\* shifting_wall is not pushed.
C22_IFramesFreezeHazards ==
    [][(pc = "physics" /\ Invulnerable(player)) =>
        /\ ~died'
        /\ traps' = traps
        /\ projectiles' = projectiles
        /\ ZoneFlags(player') = ZoneFlags(player)
        /\ player.vx = 0 =>
              player'.pos_x = player.pos_x /\ player'.rect_x = player.rect_x]_vars

\* C22 witness: the call has returned with i-frames left for a player that
\* overlaps a zone whose effect it does not have, a wall, or an active
\* projectile
C22_Witness ==
    /\ pc = "react"
    /\ Invulnerable(player)
    /\ ~died
    /\ \/ /\ Overlapped(traps, "input_swap_zone", PlayerRect(player)) # {}
          /\ TouchesLethal(traps, PlayerRect(player))
          /\ ~player.swap_lr
       \/ Overlapped(traps, "shifting_wall", PlayerRect(player)) # {}
       \/ \E j \in 1..Len(projectiles) :
             /\ projectiles[j].active
             /\ colliderect(PlayerRect(player), ProjectileRect(projectiles[j]))

\* the player is inside a trigger_hidden_spikes zone
InTrigger == Overlapped(traps, "trigger_hidden_spikes", PlayerRect(player)) # {}

\* resolve_physics has been called in this session
Called == IF pc \in {"react", "frame"} THEN frame >= 1 ELSE frame >= 2

\* every hidden_spikes trap is active, with the cooldown given
HiddenArmed(c) ==
    \A h \in OfKind(traps, "hidden_spikes") :
        traps[h].active = "True" /\ traps[h].cooldown = c

\* C23: from the return of a resolve_physics call made without i-frames in
\* which the player overlaps a trigger_hidden_spikes zone up to the next
\* Level.update, every hidden_spikes trap of the level has active = True and
\* cooldown = 2.0 s; that Level.update (of a tick shorter than 2.0 s) leaves
\* them active with 2.0 s - dt, so that they are never inactive while the
\* player stays in the zone.
C23_TriggerKeepsSpikesArmed ==
    (Called /\ player.i_frames <= 0 /\ InTrigger) =>
        /\ pc \in {"react", "frame", "hr", "level"} => HiddenArmed(2000)
        /\ (pc = "player" /\ dt < 2000) => HiddenArmed(2000 - dt)

\* C23 witness: the player has been in the zone since the start, for more
\* than 2.0 s, and the spikes are armed for another 2.0 s
C23_Witness ==
    /\ pc = "react"
    /\ level_time > 2000
    /\ deaths = 0
    /\ player.i_frames <= 0
    /\ InTrigger
    /\ OfKind(traps, "hidden_spikes") # {}
    /\ HiddenArmed(2000)

\* one step of the program as a hidden_spikes trap h sees it
HiddenStep(h) ==
    LET a == traps[h]
        b == traps'[h]
    IN  IF pc = "level" THEN
            IF a.active = "True"
            THEN /\ b.cooldown = a.cooldown - dt
                 /\ b.cooldown < a.cooldown
                 /\ b.active = IF a.cooldown - dt <= 0 THEN "False" ELSE "True"
            ELSE b.active = "False" /\ b.cooldown = a.cooldown
        ELSE IF pc = "physics" THEN
            IF ~Invulnerable(player)
               /\ Overlapped(traps, "trigger_hidden_spikes", PlayerRect(player')) # {}
            THEN b.active = "True" /\ b.cooldown = 2000
            ELSE b = a
        ELSE b = a

\* C24: a hidden_spikes trap starts inactive; only a resolve_physics call in
\* which the player overlaps a trigger_hidden_spikes zone makes it active,
\* with 2.0 s on its cooldown; while it is active every Level.update takes dt
\* off the cooldown and makes it inactive as soon as nothing is left, that
\* is at the update at which 2.0 s have passed since it was last armed,
\* wherever the player is; inactive, it stays so until it is armed again.
C24_HiddenSpikesLifeCycle ==
    /\ \A h \in OfKind(traps, "hidden_spikes") : traps[h].active = "False"
    /\ [][level_idx' = level_idx =>
            \A h \in OfKind(traps, "hidden_spikes") : HiddenStep(h)]_vars

\* C24 witness: the spikes have just gone inactive, exactly 2.0 s after they
\* were last armed, the player having died and respawned in between
C24_Witness ==
    /\ pc = "player"
    /\ deaths = 1
    /\ level_time - dt < 2500
    /\ \E h \in OfKind(traps, "hidden_spikes") :
          traps[h].active = "False" /\ traps[h].cooldown = 0 /\ traps[h].t > 2000

\* where a rising_pit is in its cycle, and what it looks like there
PitShape(a) ==
    /\ a.active \in {"False", "True", "hold", "down"}
    /\ a.rect.y >= HEIGHT - 230
    /\ a.rect.y <= a.base_y
    /\ a.active = "False" => a.rect.y = a.base_y
    /\ a.active = "hold" => a.rect.y = HEIGHT - 230

\* one step of the program as a rising_pit h sees it
PitStep(h) ==
    LET a == traps[h]
        b == traps'[h]
    IN  IF pc = "level" THEN
            CASE a.active = "False" -> b.active = "False" /\ b.rect = a.rect
              [] a.active = "True" ->
                    /\ b.active \in {"True", "hold"}
                    /\ b.rect.y < a.rect.y
                    /\ b.active = "hold" <=> b.rect.y = HEIGHT - 230
                    /\ b.active = "hold" => b.cooldown = 900
              [] a.active = "hold" ->
                    /\ b.active \in {"hold", "down"}
                    /\ b.rect = a.rect
                    /\ b.cooldown = a.cooldown - dt
                    /\ b.active = "down" <=> b.cooldown <= 0
              [] a.active = "down" ->
                    /\ b.active \in {"down", "False"}
                    /\ b.rect.y > a.rect.y
                    /\ b.active = "False" <=> b.rect.y = b.base_y
        ELSE IF pc = "physics" THEN
            /\ b.rect = a.rect
            /\ b.active # a.active => (a.active = "False" /\ b.active = "True")
        ELSE b = a

\* C25: a rising_pit only goes from rest (False) to rising (True) to 'hold'
\* to 'down' and back to rest, one phase at a time: rising, every
\* Level.update moves it up until rect.y is HEIGHT - 230, where it is clamped
\* and holds; it holds until 0.9 s are used up; descending, every
\* Level.update moves it down until rect.y is base_y, where it is clamped
\* and rests; only resolve_physics takes it out of rest; at rest
\* rect.y = base_y.
C25_PitCycle ==
    /\ [](\A h \in OfKind(traps, "rising_pit") : PitShape(traps[h]))
    /\ [][level_idx' = level_idx =>
            \A h \in OfKind(traps, "rising_pit") : PitStep(h)]_vars

\* C25 witness: the pit is back at rest, at base_y, after a whole cycle in
\* which it held for more than 0.9 s
C25_Witness ==
    /\ pc = "player"
    /\ \E h \in OfKind(traps, "rising_pit") :
          /\ traps[h].active = "False"
          /\ traps[h].cooldown < 0
          /\ traps[h].rect.y = traps[h].base_y

\* C26: in a resolve_physics call made without i-frames, a rising_pit at
\* rest becomes rising when the player overlaps a trigger_rising_pit zone and
\* is otherwise left as it is; a pit that is rising, holding or descending is
\* left as it is, trigger or not; a player overlapping such a pit dies, and a
\* player overlapping nothing but a pit at rest does not.
C26_TriggerOnlyArmsRestingPit ==
    [][(pc = "physics" /\ ~Invulnerable(player)) =>
        LET pr == PlayerRect(player')
            trig == Overlapped(traps, "trigger_rising_pit", pr) # {}
        IN  /\ \A h \in OfKind(traps, "rising_pit") :
                  /\ traps'[h] = IF traps[h].active = "False" /\ trig
                                 THEN [traps[h] EXCEPT !.active = "True"]
                                 ELSE traps[h]
                  /\ (traps[h].active # "False" /\ colliderect(pr, traps[h].rect))
                        => died'
            /\ died' => (LethalOverlap(traps, projectiles, pr) \/ OutOfBounds(player'))
       ]_vars

\* C26 witness: the player is inside the trigger zone while the pit, armed
\* before, is on its way up, and the pit has been left rising where it was
C26_Witness ==
    /\ pc = "react"
    /\ player.i_frames <= 0
    /\ Overlapped(traps, "trigger_rising_pit", PlayerRect(player)) # {}
    /\ \E h \in OfKind(traps, "rising_pit") :
          /\ traps[h].active = "True"
          /\ traps[h].rect.y < traps[h].base_y

\* where a shifting_wall would be after this tick's move, before the bounds
\* are applied
WallTarget(a) == a.rect.x + Trunc(a.dir * a.speed * dt, 1000)

\* C27: every Level.update leaves each shifting_wall with
\* world_w - 1400 <= rect.x <= world_w - 1180 and dir in {-1, +1}; dir is +1
\* after an update that clamped the wall at the lower bound, -1 after one that
\* clamped it at the upper bound, and what it was after any other.
C27_WallBoundsAndDir ==
    [][pc = "level" =>
        \A h \in OfKind(traps, "shifting_wall") :
            LET a == traps[h]
                b == traps'[h]
            IN  /\ b.rect.x >= WorldW - 1400
                /\ b.rect.x <= WorldW - 1180
                /\ b.dir \in {-1, 1}
                /\ WallTarget(a) < WorldW - 1400 =>
                      (b.rect.x = WorldW - 1400 /\ b.dir = 1)
                /\ WallTarget(a) > WorldW - 1180 =>
                      (b.rect.x = WorldW - 1180 /\ b.dir = -1)
                /\ (WallTarget(a) >= WorldW - 1400 /\ WallTarget(a) <= WorldW - 1180) =>
                      (b.rect.x = WallTarget(a) /\ b.dir = a.dir)]_vars

\* C27 witness: the wall, sent right from the lower bound, has just been
\* clamped at the upper bound and turned round
C27_Witness ==
    /\ pc = "player"
    /\ \E h \in OfKind(traps, "shifting_wall") :
          /\ traps[h].rect.x = WorldW - 1180
          /\ traps[h].dir = -1
          /\ traps[h].t > dt

\* C28: on every Level.update, from the first one on, a shifting_wall's
\* rect.x changes by at most |speed * dt| pixels.
C28_WallStepBounded ==
    [][pc = "level" =>
        \A h \in OfKind(traps, "shifting_wall") :
            Abs(traps'[h].rect.x - traps[h].rect.x) * 1000
                <= Abs(traps[h].speed * dt)]_vars

\* C29: while gravity_flipped stays true gravity_flip_timer never grows:
\* Player.update takes dt off it and ends the flip as soon as nothing is
\* left, that is once 2.2 s have passed since the flip began; only a
\* resolve_physics call in which a player that is not flipped overlaps a
\* gravity_flip_zone starts a flip, with 2.2 s on the timer, and a call for a
\* player that is flipped leaves flag and timer alone, zone or not.
C29_FlipTimerNeverRefreshed ==
    [][/\ (player.gravity_flipped /\ player'.gravity_flipped) =>
              player'.gravity_flip_timer <= player.gravity_flip_timer
       /\ (pc = "player" /\ player.gravity_flipped) =>
              /\ player'.gravity_flip_timer = player.gravity_flip_timer - dt
              /\ player'.gravity_flipped <=> player.gravity_flip_timer - dt > 0
       /\ (pc = "physics" /\ player.gravity_flipped) =>
              /\ player'.gravity_flipped
              /\ player'.gravity_flip_timer = player.gravity_flip_timer
       /\ (~player.gravity_flipped /\ player'.gravity_flipped) =>
              /\ pc = "physics"
              /\ Overlapped(traps, "gravity_flip_zone", PlayerRect(player')) # {}
              /\ player'.gravity_flip_timer = 2200]_vars

\* C29 witness: 2.0 s or more into the session the player, still alive and
\* inside the zone, is flipped by a flip that began 1.7 s ago or more, the
\* timer never having been set again
C29_Witness ==
    /\ pc = "react"
    /\ deaths = 0
    /\ level_time >= 2000
    /\ Overlapped(traps, "gravity_flip_zone", PlayerRect(player)) # {}
    /\ player.gravity_flipped
    /\ player.gravity_flip_timer <= 500

C31_SpawnRateLimited ==
    [][\A h \in OfKind(traps, "spawn_homing") :
          IF pc = "level" THEN
              LET n == Len(projectiles') - Len(Compact(
                           [i \in 1..Len(projectiles) |->
                               UpdateProjectile(projectiles[i], dt, PlayerRect(player))]))
                  left == IF traps[h].cooldown > 0 THEN traps[h].cooldown - dt
                          ELSE traps[h].cooldown
                  spawn == colliderect(PlayerRect(player), traps[h].rect) /\ left <= 0
              IN  /\ n = (IF spawn THEN 1 ELSE 0)
                  /\ traps'[h].cooldown = (IF spawn THEN 1200 ELSE left)
          ELSE level_idx' = level_idx =>
                  traps'[h].cooldown = traps[h].cooldown]_vars

\* C31 witness: two projectiles of the same spawner are in flight, the second
\* one just spawned
C31_Witness ==
    /\ pc = "player"
    /\ Len(projectiles) = 2
    /\ projectiles[2].ttl = 5500 - dt
    /\ \E h \in OfKind(traps, "spawn_homing") : traps[h].cooldown = 1200

\* a projectile is inside the bounds beyond which Level.update drops it
InExtendedBounds(q) ==
    /\ q.pos.x >= -260 * PosScale /\ q.pos.x <= (WorldW + 260) * PosScale
    /\ q.pos.y >= -260 * PosScale /\ q.pos.y <= (HEIGHT + 260) * PosScale

\* C32: every projectile of level.projectiles has ttl > 0 and is inside the
\* extended bounds, and it is active, but for the one that resolve_physics
\* has just deactivated on the player, whose death empties the list before
\* the next Level.update.
C32_ProjectilesAlive ==
    \A j \in 1..Len(projectiles) :
        /\ projectiles[j].ttl > 0
        /\ InExtendedBounds(projectiles[j])
        /\ projectiles[j].active \/ (pc = "react" /\ died)

\* C32 witness: a Level.update that has just spawned a projectile has
\* dropped it and every older one, out of ttl or out of the bounds after a
\* long tick, no death having emptied the list
C32_Witness ==
    /\ pc = "player"
    /\ deaths = 0
    /\ level_time > 5500
    /\ Len(projectiles) = 0
    /\ \E h \in OfKind(traps, "spawn_homing") : traps[h].cooldown > 0

\* the active platforms that a rectangle overlaps
Blocking(pr) ==
    {i \in 1..Len(Platforms(level_idx)) :
        /\ platform_is_active(traps, Platforms(level_idx)[i])
        /\ colliderect(pr, Platforms(level_idx)[i])}

\* the player after the X pass of the resolve_physics call about to be made
AfterX == PassX(player, Platforms(level_idx), traps, dt)

\* C33: in the X pass of resolve_physics a player with vx # 0 whose moved rect
\* overlaps active platforms is clipped out of them: its right edge is on the
\* left edge of one of them when it moves right, its left edge on the right
\* edge of one of them when it moves left, and vx is 0; and after the X pass a
\* player that moved horizontally overlaps no active platform.
C33_XPassClipsOut ==
    (pc = "physics" /\ player.vx # 0) =>
        LET hit == Blocking(PlayerRect(MoveX(player, dt)))
            pr == PlayerRect(AfterX)
        IN  /\ Blocking(pr) = {}
            /\ hit # {} =>
                  /\ AfterX.vx = 0
                  /\ AfterX.pos_x = AfterX.rect_x * PosScale
                  /\ player.vx > 0 =>
                        \E i \in hit : Right(pr) = Left(Platforms(level_idx)[i])
                  /\ player.vx < 0 =>
                        \E i \in hit : Left(pr) = Right(Platforms(level_idx)[i])
            /\ hit = {} => AfterX = MoveX(player, dt)

\* C33 witness: a player moving left is about to be clipped back to the
\* right edge of a platform
C33_Witness ==
    /\ pc = "physics"
    /\ player.vx < 0
    /\ Blocking(PlayerRect(MoveX(player, dt))) # {}
    /\ AfterX.rect_x > MoveX(player, dt).rect_x

\* a list in the opposite order
Reversed(s) == [i \in 1..Len(s) |-> s[Len(s) + 1 - i]]

\* the active platforms that a rect is above (or rests on) and overlaps in X
Below(pr) ==
    {i \in 1..Len(Platforms(level_idx)) :
        /\ platform_is_active(traps, Platforms(level_idx)[i])
        /\ XOverlap(pr, Platforms(level_idx)[i])
        /\ Bottom(pr) <= Top(Platforms(level_idx)[i])}

\* what C34 asks of the player r that the Y pass makes of the player p
NoTunnel(p, r) ==
    LET below == Below(PlayerRect(p))
        reached == {i \in below : Bottom(PlayerRect(MoveY(p, dt)))
                                      >= Top(Platforms(level_idx)[i])}
    IN  /\ \A i \in below : Bottom(PlayerRect(r)) <= Top(Platforms(level_idx)[i])
        /\ reached # {} =>
              /\ \E i \in reached : Bottom(PlayerRect(r)) = Top(Platforms(level_idx)[i])
              /\ r.vy = 0
              /\ r.on_ground
              /\ r.pos_y = r.rect_y * PosScale
        /\ reached = {} => r = MoveY(p, dt)

\* C34: the Y pass of resolve_physics does not tunnel: for any dt, a player
\* that is not gravity-flipped, has vy >= 0, and before the Y pass has its
\* bottom at or above the top of an active platform that it overlaps in X,
\* ends the pass with its bottom at or above that top; when the move reached
\* or crossed such a platform, it stands on the highest of them with vy = 0
\* and on_ground = True; and this is so for the platform list in its order
\* and in the opposite order.
C34_NoVerticalTunnelling ==
    (pc = "physics" /\ ~player.gravity_flipped /\ player.vy >= 0) =>
        /\ NoTunnel(AfterX, PassY(AfterX, Platforms(level_idx), traps, dt))
        /\ NoTunnel(AfterX, PassY(AfterX, Reversed(Platforms(level_idx)), traps, dt))

\* C34 witness: a stalled frame is about to move the player from above two
\* stacked active platforms to below both of them, and the Y pass lands it on
\* the upper one
C34_Witness ==
    /\ pc = "physics"
    /\ ~player.gravity_flipped
    /\ player.vy > 0
    /\ \E i, j \in Below(PlayerRect(AfterX)) :
          /\ Top(Platforms(level_idx)[i]) < Top(Platforms(level_idx)[j])
          /\ Top(PlayerRect(MoveY(AfterX, dt))) > Bottom(Platforms(level_idx)[j])
          /\ Bottom(PlayerRect(PassY(AfterX, Platforms(level_idx), traps, dt)))
                = Top(Platforms(level_idx)[i])

\* C35: a resolve_physics call made without i-frames sets a falling_block's
\* triggered exactly when the block is active, the player's centerx is
\* strictly inside the block's horizontal span, and the player's top is below
\* the block's bottom by more than 0 and less than 280 px (a flag already set
\* stays set); any overlap with an active block, at rest or falling, makes the
\* call report a death; a block that is not active is not triggered, and a
\* death is reported only out of bounds or in contact with a trap that is
\* lethal, which a block that is not active is not.
C35_FallingBlockTrigger ==
    [][(pc = "physics" /\ player.i_frames <= 0) =>
          LET pr == PlayerRect(player')
          IN  /\ \A h \in OfKind(traps, "falling_block") :
                    LET t == traps[h]
                        gap == pr.y - (t.rect.y + t.rect.h)
                        cx == pr.x + pr.w \div 2
                        under == /\ t.active = "True"
                                 /\ t.rect.x < cx /\ cx < t.rect.x + t.rect.w
                                 /\ gap > 0 /\ gap < 280
                    IN  /\ traps'[h].triggered = (t.triggered \/ under)
                        /\ traps'[h].rect = t.rect /\ traps'[h].active = t.active
                        /\ (t.active = "True" /\ colliderect(pr, t.rect)) => died'
                        /\ t.active # "True" => traps'[h].triggered = t.triggered
              /\ died' => (OutOfBounds(player') \/ LethalOverlap(traps', projectiles, pr))]_vars

\* C35 witness: resolve_physics has just triggered a falling block that the
\* player stands under, and has not reported a death
C35_Witness ==
    /\ pc = "react"
    /\ ~died
    /\ player.i_frames <= 0
    /\ \E h \in OfKind(traps, "falling_block") :
          /\ traps[h].triggered
          /\ traps[h].rect.y = traps[h].base_y
          /\ UnderBlock(PlayerRect(player), traps[h])

\* the player rect that the door loop of the frame in progress sees at its
\* first door: resolve_physics' result has been reacted to
DoorLoopRect == PlayerRect(IF died THEN respawn(player) ELSE player)

\* the Manhattan distance between the centers of two rects
Manhattan(a, b) == Abs(CenterX(a) - CenterX(b)) + Abs(CenterY(a) - CenterY(b))

\* the moving fake doors that no fake door precedes in level.doors
MovingDoors ==
    {i \in 1..Len(doors) :
        /\ doors[i].fake /\ doors[i].moves
        /\ \A j \in 1..(i - 1) : ~doors[j].fake}

\* C36 as claimed: on a frame on which the player is within Manhattan
\* distance 260 of a moving fake door, the door's move does not increase the
\* horizontal distance between the door's center and the player's center.
C36_DoorDriftsToPlayer ==
    [][(pc = "react" /\ level_idx' = level_idx) =>
          \A i \in MovingDoors :
              Manhattan(DoorLoopRect, doors[i].rect) < 260 =>
                  Abs(CenterX(DoorLoopRect) - CenterX(doors'[i].rect))
                      <= Abs(CenterX(DoorLoopRect) - CenterX(doors[i].rect))]_vars

\* C36, amended: on a frame on which the player is within Manhattan distance
\* 260 of a moving fake door, the door moves 7 px to the right, stopping at
\* the world's right edge, whichever side the player is on; out of range it
\* does not move.  The horizontal distance between the two centers does not
\* increase when the player's center is 7 px or more right of the door's,
\* and increases by the door's step when it is at or left of the door's.
C36_DoorDriftsRight ==
    [][(pc = "react" /\ level_idx' = level_idx) =>
          \A i \in MovingDoors :
              LET a == doors[i].rect
                  b == doors'[i].rect
                  gap == CenterX(DoorLoopRect) - CenterX(a)
                  step == IF a.x + 7 > WorldW - a.w THEN WorldW - a.w - a.x ELSE 7
              IN  /\ b.y = a.y /\ b.w = a.w /\ b.h = a.h
                  /\ Manhattan(DoorLoopRect, a) < 260 =>
                        /\ b.x = a.x + step
                        /\ gap >= 7 => Abs(gap - step) <= Abs(gap)
                        /\ gap <= 0 => Abs(gap - step) = Abs(gap) + step
                  /\ Manhattan(DoorLoopRect, a) >= 260 => b.x = a.x]_vars

\* C36 witness: the fake door of level 1 has moved right, away from a player
\* that is left of it, within range, and alive
C36_Witness ==
    /\ pc = "frame"
    /\ level_idx = 1
    /\ deaths = 0
    /\ doors[1].rect.x >= WorldW - 230 + 14
    /\ CenterX(PlayerRect(player)) < CenterX(doors[1].rect)
    /\ Manhattan(PlayerRect(player), doors[1].rect) < 260

\* C39: at most one death is counted per frame of the main loop: deaths
\* changes only in main's reaction to resolve_physics and in its door loop,
\* by one when resolve_physics reported a death or a fake door killed the
\* player, and not at all otherwise; after a reported death the i-frames of
\* the respawn keep a fake door that the respawned player touches from
\* counting a second one.
C39_OneDeathPerFrame ==
    [][/\ deaths' # deaths => pc = "react"
       /\ pc = "react" =>
             LET touched == \E i \in 1..Len(doors) :
                                /\ doors[i].fake
                                /\ player.i_frames <= 0
                                /\ colliderect(PlayerRect(player),
                                               [doors[i].rect EXCEPT !.x = DoorDrift(doors[i], PlayerRect(player))])
             IN  deaths' = deaths + (IF died \/ touched THEN 1 ELSE 0)]_vars

\* C39 witness: resolve_physics has reported a death and the player's spawn
\* point is inside a fake door
C39_Witness ==
    /\ pc = "react"
    /\ died
    /\ deaths >= 1
    /\ \E i \in 1..Len(doors) :
          doors[i].fake /\ colliderect(PlayerRect(respawn(player)), doors[i].rect)

\* C37: after every resolve_physics call, platform clipping and wall push
\* included, 0 <= player.pos.x <= world_w - the player's width.
C37_PlayerInsideWorld ==
    pc = "react" =>
        /\ player.pos_x >= 0
        /\ player.pos_x <= (WorldW - PLAYER_SIZE) * PosScale
        /\ player.rect_x >= 0
        /\ player.rect_x + PLAYER_SIZE <= WorldW

\* C37 witness: resolve_physics has stopped at the world's left edge a
\* player that is still moving left
C37_Witness ==
    /\ pc = "react"
    /\ player.vx < 0
    /\ player.pos_x = 0
    /\ player.on_ground

\* the Player.update call about to be made executes a jump: the buffer is
\* set when the jump is tested, and the call leaves it at zero
Jumped == pc = "player" /\ JumpBufAtTest > 0 /\ player'.jump_buf = 0

\* C38: no double jump.  A jump leaves coyote at 0 and on_ground False; from
\* there (on_ground False, coyote 0) Player.update executes no jump, however
\* long jump is held; coyote only rises in a Player.update that finds
\* on_ground True; and on_ground only becomes True in resolve_physics.  So
\* between two executed jumps a resolve_physics call has set on_ground True.
C38_NoDoubleJump ==
    [][/\ Jumped => (player'.coyote = 0 /\ ~player'.on_ground)
       /\ (pc = "player" /\ ~player.on_ground /\ player.coyote = 0) => ~Jumped
       /\ player'.coyote > player.coyote =>
             (pc = "player" /\ player.on_ground /\ ~Jumped)
       /\ (player'.on_ground /\ ~player.on_ground) => pc = "physics"]_vars

\* C38 witness: the player is rising from a jump with jump still held: the
\* buffer is set, coyote is 0, and Player.update has executed no second jump
C38_Witness ==
    /\ pc = "physics"
    /\ keys.jump
    /\ ~player.on_ground
    /\ player.coyote = 0
    /\ player.jump_buf = 100
    /\ player.vy < 0
    /\ Bottom(PlayerRect(player)) < Top(StartPad)

\* the places of the traps of a kind in a level's trap list as built
KindIn(ts, kind) == {h \in 1..Len(ts) : ts[h].kind = kind}

\* a trap of the kind, at its base position
AtBase(t, kind) == t.kind = kind /\ t.rect.x = t.base_x /\ t.rect.y = t.base_y

\* C40: while Level.update keeps being called with a dt for which
\* int(speed * dt) >= 1, every armed rising_pit returns to rest (active False
\* at base_y) and every triggered falling_block returns to (base_x, base_y)
\* with active True and triggered False.  Checked for the pits and blocks
\* armed or triggered while at least 11 frames of the run remain.
C40_TrapsReturn ==
    /\ \A h \in KindIn(Traps2, "rising_pit") :
          (Truthy(traps[h].active) /\ frame <= CycleFrames - 11)
              ~> (AtBase(traps[h], "rising_pit") /\ traps[h].active = "False")
    /\ \A h \in KindIn(Traps2, "falling_block") :
          (traps[h].triggered /\ frame <= CycleFrames - 11)
              ~> (AtBase(traps[h], "falling_block") /\ traps[h].active = "True"
                    /\ ~traps[h].triggered)

\* C40 witness: a falling block that was triggered, fell out of the world and
\* waited out its 1.5 s is back at its base, active and not triggered
C40_Witness ==
    \E h \in 1..Len(traps) :
        /\ AtBase(traps[h], "falling_block")
        /\ traps[h].active = "True"
        /\ ~traps[h].triggered
        /\ traps[h].cooldown < 0
====
